---------------------------- MODULE Spec2Model ----------------------------
(***************************************************************************)
(* Model of the Firebolt Core NYC demo (src/app/streamlit_app.py):         *)
(*   - FireboltConnector._parse_jsonlines_output, the result-stream        *)
(*     decoder, computed on texts that are sequences of characters;        *)
(*   - FireboltConnector.execute_query, the query runner, as a state       *)
(*     machine around the two external invocations it can make;            *)
(*   - the operations of the dashboard (test_connection, get_filter_data,  *)
(*     execute_benchmark_query, execute_custom_query, Clear Results,       *)
(*     Refresh Cache) on the session state and the filter-data cache.      *)
(*                                                                         *)
(* A text is a sequence of atoms.  An atom is one character ("{", a quote,  *)
(* a blank, a line feed, ...) or a run of letters or digits that the model  *)
(* never cuts ("message_type", "START", "a").  Every string operation of    *)
(* the code (re.sub, strip, split, startswith, endswith, +=, json.loads)    *)
(* is computed on these sequences.                                          *)
(***************************************************************************)
EXTENDS Integers, Sequences, FiniteSets, TLC

VARIABLES
    pc,              \* where the one thread is: "idle", "primary" (the
                     \* JSONLines invocation runs), "fallback" (the CSV
                     \* invocation runs), "done" (execute_query returned);
                     \* for the decoder alone: "printing", "decoded"
    query,           \* the query argument of the call
    timeout,         \* the timeout argument of the call
    now,             \* time.time(), in ticks
    start_time,      \* start_time (line 81)
    execution_time,  \* execution_time (line 97)
    stdout,          \* what the primary invocation has printed so far
    sent,            \* the same output, line by line as the client meant it
    runs,            \* the subprocess.run calls of execute_query, in order
    parsed,          \* what _parse_jsonlines_output did (line 102)
    ret,             \* the triple execute_query returned
    script,          \* where the script thread of the dashboard is: "ready",
                     \* or inside execute_query waiting for the "primary"
                     \* or the "fallback" invocation
    caller,          \* the operation that called execute_query, its locals
    procs,           \* external query processes started and not yet ended
    clock,           \* time.time() of the dashboard, in seconds
    query_results,   \* st.session_state.query_results, in insertion order
    latest_query,    \* st.session_state.latest_query
    query_execution_order,  \* st.session_state.query_execution_order
    cache,           \* the st.cache_data entry of get_filter_data
    connected,       \* what test_connection returned last
    tested,          \* what execute_query reported to the last test_connection
    filter_data,     \* what get_filter_data returned last
    ran,             \* the query runs completed since the last Clear Results
    fetched,         \* the get_filter_data calls since the cache was cleared
    data_dir,        \* the files of the data directory of DatasetDownloader
    download,        \* the download_file call in progress
    downloads        \* the download_file calls that returned

\* The state of the dashboard.
appvars == <<script, caller, procs, clock, query_results, latest_query,
             query_execution_order, cache, connected, tested, filter_data,
             ran, fetched>>

\* The state of one execute_query call and of the decoder.
runvars == <<pc, query, timeout, now, start_time, execution_time, stdout, sent,
             runs, parsed, ret>>

\* The state of DatasetDownloader.
filevars == <<data_dir, download, downloads>>

vars == <<runvars, appvars, filevars>>

---------------------------------------------------------------------------
(* Characters *)

LF == "\n"
CR == "\r"
TAB == "\t"
SP == " "
QUOTE == "\""

\* Characters outside [\x20-\x7E\n\r\t]: a terminal escape byte and a
\* non-ASCII letter.
NonPrintable == {"<ESC>", "<e-acute>"}

\* What str.strip() removes at both ends of a cleaned line.
Whitespace == {SP, TAB, CR, LF}

Digits == {"1", "2"}

---------------------------------------------------------------------------
(* Sequence helpers *)

Last(s) == s[Len(s)]

\* str.startswith / str.endswith
StartsWith(s, p) == Len(s) >= Len(p) /\ SubSeq(s, 1, Len(p)) = p
EndsWith(s, p) == Len(s) >= Len(p) /\ SubSeq(s, Len(s) - Len(p) + 1, Len(s)) = p

RECURSIVE LStrip(_)
LStrip(s) ==
    IF s # <<>> /\ Head(s) \in Whitespace THEN LStrip(Tail(s)) ELSE s

RECURSIVE RStrip(_)
RStrip(s) ==
    IF s # <<>> /\ Last(s) \in Whitespace
    THEN RStrip(SubSeq(s, 1, Len(s) - 1)) ELSE s

\* str.strip()
Strip(s) == RStrip(LStrip(s))

\* The value of the one-element set S.
Only(S) == CHOOSE x \in S : TRUE

MinOf(S) == CHOOSE n \in S : \A m \in S : n <= m

\* The pieces of s between the occurrences of sep, from index from on.
RECURSIVE SplitFrom(_, _, _)
SplitFrom(s, sep, from) ==
    Only({IF seps = {} THEN <<SubSeq(s, from, Len(s))>>
          ELSE Only({<<SubSeq(s, from, k - 1)>> \o SplitFrom(s, sep, k + 1)
                     : k \in {MinOf(seps)}})
          : seps \in {{k \in from..Len(s) : s[k] = sep}}})

\* str.split('\n'): always at least one piece.
SplitLines(s) == SplitFrom(s, LF, 1)

\* Line 142 with the carriage return removed as well.
CleanOutputDroppingReturn(output) ==
    SelectSeq(output, LAMBDA c : c \notin NonPrintable \cup {CR})

\* re.sub(r'[^\x20-\x7E\n\r\t]', '', output)
CleanOutput(output) == SelectSeq(output, LAMBDA c : c \notin NonPrintable)

---------------------------------------------------------------------------
(* json.loads on a text.  A JSON value is a record [t, v]: t is its type   *)
(* and v a sequence (the characters of a string, the digits of a number,   *)
(* the items of a list, the key/value pairs of an object).                 *)

JStr(chars) == [t |-> "str", v |-> chars]
JNum(digits) == [t |-> "num", v |-> digits]
JNull == [t |-> "null", v |-> <<>>]
JArr(items) == [t |-> "arr", v |-> items]
JObj(pairs) == [t |-> "obj", v |-> pairs]

\* The result of a scanning step: the value and the index after it.
Scanned(val, pos) == [ok |-> TRUE, val |-> val, pos |-> pos]
\* json.JSONDecodeError
DecodeError == [ok |-> FALSE, val |-> JNull, pos |-> 0]

\* WHITESPACE.match(s, i).end() of json.decoder: blank, tab, CR, LF.
RECURSIVE SkipWs(_, _)
SkipWs(s, i) ==
    IF i <= Len(s) /\ s[i] \in Whitespace THEN SkipWs(s, i + 1) ELSE i

\* A run of digits starting at i ends before the returned index.
RECURSIVE DigitsEnd(_, _)
DigitsEnd(s, i) ==
    IF i <= Len(s) /\ s[i] \in Digits THEN DigitsEnd(s, i + 1) ELSE i

\* The first index from i on that holds a quote or a control character
\* (Len(s) + 1 when there is none).
RECURSIVE StringEnd(_, _)
StringEnd(s, i) ==
    IF i <= Len(s) /\ s[i] # QUOTE /\ s[i] \notin {TAB, CR, LF}
    THEN StringEnd(s, i + 1) ELSE i

\* py_scanstring(s, i, strict=True), i being the index after the opening
\* quote: a control character inside a string is an error.
ScanString(s, i) ==
    Only({IF j <= Len(s) /\ s[j] = QUOTE
          THEN Scanned(JStr(SubSeq(s, i, j - 1)), j + 1)
          ELSE DecodeError : j \in {StringEnd(s, i)}})

\* A dict after d[key] = val: a repeated key keeps its place and takes the
\* new value.
DictPut(pairs, key, val) ==
    IF \E i \in 1..Len(pairs) : pairs[i][1] = key
    THEN [i \in 1..Len(pairs) |->
             IF pairs[i][1] = key THEN <<key, val>> ELSE pairs[i]]
    ELSE Append(pairs, <<key, val>>)

RECURSIVE ScanOnce(_, _), ArrayItems(_, _, _), ObjectPairs(_, _, _)

\* json.decoder.JSONArray after an item: j is the index of the first
\* non-blank character after it.
ArrayNext(s, j, items) ==
    IF j > Len(s) THEN DecodeError
    ELSE IF s[j] = "]" THEN Scanned(JArr(items), j + 1)
    ELSE IF s[j] = "," THEN ArrayItems(s, SkipWs(s, j + 1), items)
    ELSE DecodeError

\* json.decoder.JSONArray, from the item at index i on.
ArrayItems(s, i, acc) ==
    Only({IF ~r.ok THEN DecodeError
          ELSE ArrayNext(s, SkipWs(s, r.pos), Append(acc, r.val))
          : r \in {ScanOnce(s, i)}})

\* json.decoder.JSONObject after a value: j is the index of the first
\* non-blank character after it.
ObjectNext(s, j, pairs) ==
    IF j > Len(s) THEN DecodeError
    ELSE IF s[j] = "}" THEN Scanned(JObj(pairs), j + 1)
    ELSE IF s[j] = "," THEN ObjectPairs(s, SkipWs(s, j + 1), pairs)
    ELSE DecodeError

\* json.decoder.JSONObject after a key: c is the index of the first
\* non-blank character after it.
ObjectValue(s, c, key, acc) ==
    IF c > Len(s) \/ s[c] # ":" THEN DecodeError
    ELSE Only({IF ~r.ok THEN DecodeError
               ELSE ObjectNext(s, SkipWs(s, r.pos), DictPut(acc, key, r.val))
               : r \in {ScanOnce(s, SkipWs(s, c + 1))}})

\* json.decoder.JSONObject, from the key at index i on (s[i] must be a
\* quote).
ObjectPairs(s, i, acc) ==
    IF i > Len(s) \/ s[i] # QUOTE THEN DecodeError
    ELSE Only({IF ~k.ok THEN DecodeError
               ELSE ObjectValue(s, SkipWs(s, k.pos), k.val.v, acc)
               : k \in {ScanString(s, i + 1)}})

\* json.decoder.JSONObject and JSONArray after the opening character: j is
\* the index of the first non-blank character after it.
ObjectOpen(s, j) ==
    IF j > Len(s) THEN DecodeError
    ELSE IF s[j] = "}" THEN Scanned(JObj(<<>>), j + 1)
    ELSE ObjectPairs(s, j, <<>>)

ArrayOpen(s, j) ==
    IF j <= Len(s) /\ s[j] = "]" THEN Scanned(JArr(<<>>), j + 1)
    ELSE ArrayItems(s, j, <<>>)

\* json.scanner.py_make_scanner._scan_once
ScanOnce(s, i) ==
    IF i > Len(s) THEN DecodeError
    ELSE CASE s[i] = QUOTE -> ScanString(s, i + 1)
           [] s[i] = "{" -> Only({ObjectOpen(s, j) : j \in {SkipWs(s, i + 1)}})
           [] s[i] = "[" -> Only({ArrayOpen(s, j) : j \in {SkipWs(s, i + 1)}})
           [] s[i] = "null" -> Scanned(JNull, i + 1)
           [] s[i] \in Digits ->
                Only({Scanned(JNum(SubSeq(s, i, j - 1)), j) : j \in {DigitsEnd(s, i)}})
           [] OTHER -> DecodeError

\* json.loads(text): one value, blanks around it, nothing after it.
JsonLoads(text) ==
    Only({IF r.ok /\ SkipWs(text, r.pos) = Len(text) + 1 THEN r ELSE DecodeError
          : r \in {ScanOnce(text, SkipWs(text, 1))}})

\* dict.get(key, default)
DictGet(obj, key, default) ==
    LET hits == {i \in 1..Len(obj.v) : obj.v[i][1] = key}
    IN  IF hits = {} THEN default ELSE obj.v[CHOOSE i \in hits : TRUE][2]

DictHas(obj, key) == \E i \in 1..Len(obj.v) : obj.v[i][1] = key

---------------------------------------------------------------------------
(* pandas data frames: the column labels and the rows, each row a sequence *)
(* of cells.                                                               *)

\* pd.DataFrame()
EmptyDataFrame == [columns |-> <<>>, rows |-> <<>>]

\* DataFrame.empty: some axis has length 0.
IsEmpty(frame) == frame.columns = <<>> \/ frame.rows = <<>>

\* The cell pandas puts where a row is shorter than the widest row.
NaN == [t |-> "nan", v |-> <<>>]

MaxOf(S) == CHOOSE n \in S : \A m \in S : m <= n

\* The cells of a row of width w, padded with NaN.
PadRow(r, w) == [i \in 1..w |-> IF i <= Len(r) THEN r[i] ELSE NaN]

\* df = pd.DataFrame(data_rows); df.columns = columns (lines 202-203), for
\* non-empty data_rows.  Rows that are lists give one column per position
\* of the widest row; rows that are scalars give one column.  The labels
\* must be as many as the columns, else pandas raises ValueError; so does a
\* mix of list and scalar rows.
FrameOf(columns, data_rows) ==
    Only({IF lists # {} /\ lists # 1..Len(data_rows)
          THEN [exc |-> "ValueError", frame |-> EmptyDataFrame]
          ELSE Only({IF width # Len(columns)
                     THEN [exc |-> "ValueError", frame |-> EmptyDataFrame]
                     ELSE [exc |-> "none",
                           frame |-> [columns |-> columns,
                                      rows |-> [i \in 1..Len(data_rows) |->
                                          PadRow(IF data_rows[i].t = "arr"
                                                 THEN data_rows[i].v
                                                 ELSE <<data_rows[i]>>, width)]]]
                     : width \in {IF lists = {} THEN 1
                                  ELSE MaxOf({Len(data_rows[i].v) : i \in lists})}})
          : lists \in {{i \in 1..Len(data_rows) : data_rows[i].t = "arr"}}})

---------------------------------------------------------------------------
(* FireboltConnector._parse_jsonlines_output *)

\* Lines 157-158 with the timing lines alone skipped.
IsTimingLine(line) == Head(line) = "Time:"

\* Lines 157-158: a timing or metadata line.
IsMetadataLine(line) == Head(line) \in {"Time:", "Request Id:"}

\* Lines 160-173 with current_json = line where the code has
\* current_json += line.
AccumulateRestarting(acc, line) ==
    Only({IF Last(line) = "}"
          THEN [json_lines |-> Append(flushed, line), current_json |-> <<>>]
          ELSE [json_lines |-> flushed, current_json |-> line]
          : flushed \in {IF acc.current_json # <<>>
                         THEN Append(acc.json_lines, acc.current_json)
                         ELSE acc.json_lines}})

\* Lines 160-173 for a stripped line that is kept: acc holds json_lines and
\* current_json.
Accumulate(acc, line) ==
    Only({IF current # <<>> /\ Last(current) = "}"
          THEN [json_lines |-> Append(flushed, current), current_json |-> <<>>]
          ELSE [json_lines |-> flushed, current_json |-> current]
          : current \in {IF Head(line) = "{" THEN line
                         ELSE acc.current_json \o line},
            flushed \in {IF Head(line) = "{" /\ acc.current_json # <<>>
                         THEN Append(acc.json_lines, acc.current_json)
                         ELSE acc.json_lines}})

\* One pass of the loop of lines 151-173 over a stripped line.
ReassembleStep(acc, line) ==
    IF line = <<>> THEN acc
    ELSE IF IsMetadataLine(line) THEN acc
    ELSE Accumulate(acc, line)

RECURSIVE ReassembleFrom(_, _, _)
ReassembleFrom(acc, lines, n) ==
    IF n > Len(lines) THEN acc
    ELSE Only({ReassembleFrom(next, lines, n + 1)
               : next \in {ReassembleStep(acc, Strip(lines[n]))}})

\* Lines 145-177: the candidates (json_lines) of a cleaned output.
JsonLines(cleaned_output) ==
    Only({IF acc.current_json # <<>>
          THEN Append(acc.json_lines, acc.current_json)
          ELSE acc.json_lines
          : acc \in {ReassembleFrom([json_lines |-> <<>>, current_json |-> <<>>],
                                    SplitLines(Strip(cleaned_output)), 1)}})

\* Line 189: [col['name'] for col in result_columns], from the n-th entry
\* on.  exc is the exception the comprehension raises, "none" when it
\* raises none.
RECURSIVE ColumnNames(_, _, _)
ColumnNames(cols, n, names) ==
    IF n > Len(cols) THEN [exc |-> "none", names |-> names]
    ELSE IF cols[n].t # "obj" THEN [exc |-> "TypeError", names |-> <<>>]
    ELSE IF ~DictHas(cols[n], <<"name">>) THEN [exc |-> "KeyError", names |-> <<>>]
    ELSE ColumnNames(cols, n + 1, Append(names, DictGet(cols[n], <<"name">>, JNull)))

\* What iterating a JSON value yields: the items of a list, the keys of an
\* object, the characters of a string; exc is TypeError for a value that
\* cannot be iterated.
Iterate(val) ==
    CASE val.t = "arr" -> [exc |-> "none", items |-> val.v]
      [] val.t = "obj" ->
           [exc |-> "none", items |-> [i \in 1..Len(val.v) |-> JStr(val.v[i][1])]]
      [] val.t = "str" ->
           [exc |-> "none", items |-> [i \in 1..Len(val.v) |-> JStr(<<val.v[i]>>)]]
      [] OTHER -> [exc |-> "TypeError", items |-> <<>>]

\* Lines 186-189: a START message.
StartStep(st, msg) ==
    Only({IF it.exc # "none" THEN [st EXCEPT !.exc = it.exc]
          ELSE Only({IF cn.exc # "none" THEN [st EXCEPT !.exc = cn.exc]
                     ELSE [st EXCEPT !.columns = cn.names]
                     : cn \in {ColumnNames(it.items, 1, <<>>)}})
          : it \in {Iterate(DictGet(msg, <<"result_columns">>, JArr(<<>>)))}})

\* Lines 191-194 with data_rows = data in place of data_rows.extend(data).
DataStepAssigning(st, msg) ==
    Only({IF it.exc # "none" THEN [st EXCEPT !.exc = it.exc]
          ELSE [st EXCEPT !.data_rows = it.items]
          : it \in {Iterate(DictGet(msg, <<"data">>, JArr(<<>>)))}})

\* Lines 191-194: a DATA message.
DataStep(st, msg) ==
    Only({IF it.exc # "none" THEN [st EXCEPT !.exc = it.exc]
          ELSE [st EXCEPT !.data_rows = st.data_rows \o it.items]
          : it \in {Iterate(DictGet(msg, <<"data">>, JArr(<<>>)))}})

\* Lines 186-194 for a candidate that json.loads accepted.
Dispatch(st, msg) ==
    IF msg.t # "obj" THEN [st EXCEPT !.exc = "AttributeError"]
    ELSE Only({IF message_type = JStr(<<"START">>) THEN StartStep(st, msg)
               ELSE IF message_type = JStr(<<"DATA">>) THEN DataStep(st, msg)
               ELSE st
               : message_type \in {DictGet(msg, <<"message_type">>, JNull)}})

\* The body of the loop of lines 182-198 for one candidate: st holds exc,
\* columns and data_rows.
MessageStep(st, json_line) ==
    Only({IF ~loaded.ok THEN st ELSE Dispatch(st, loaded.val)
          : loaded \in {JsonLoads(json_line)}})

RECURSIVE MessagesFrom(_, _, _)
MessagesFrom(st, json_lines, n) ==
    IF n > Len(json_lines) \/ st.exc # "none" THEN st
    ELSE Only({MessagesFrom(next, json_lines, n + 1)
               : next \in {MessageStep(st, json_lines[n])}})

\* Lines 179-198: columns and data_rows after the loop over the candidates.
Collect(json_lines) ==
    MessagesFrom([exc |-> "none", columns |-> <<>>, data_rows |-> <<>>],
                 json_lines, 1)

\* Lines 201-206.
CreateDataFrame(st) ==
    IF st.exc # "none" THEN [exc |-> st.exc, frame |-> EmptyDataFrame]
    ELSE IF st.columns # <<>> /\ st.data_rows # <<>>
    THEN FrameOf(st.columns, st.data_rows)
    ELSE [exc |-> "none", frame |-> EmptyDataFrame]

\* _parse_jsonlines_output(output): exc is the exception that leaves the
\* function ("none": it returns frame).
ParseJsonlinesOutput(output) ==
    Only({CreateDataFrame(st) : st \in {Collect(JsonLines(CleanOutput(output)))}})

---------------------------------------------------------------------------
(* pd.read_csv on the CSV client output (line 113) *)

\* The fields of a line: the text between commas.
SplitFields(line) == SplitFrom(line, ",", 1)

\* A cell as pandas reads it: an empty field is NaN, digits are a number.
CsvCell(field) ==
    IF field = <<>> THEN NaN
    ELSE IF \A i \in 1..Len(field) : field[i] \in Digits THEN JNum(field)
    ELSE JStr(field)

\* pd.read_csv(io.StringIO(text)) for a text with one non-blank line at
\* least whose first data row is no wider than the header: the first line
\* holds the labels, blank lines are skipped, a short row is padded with
\* NaN and a row wider than the header raises ParserError.
ReadCsv(text) ==
    Only({IF \E i \in 2..Len(lines) : Len(lines[i]) > Len(lines[1])
          THEN [exc |-> "ParserError", frame |-> EmptyDataFrame]
          ELSE [exc |-> "none",
                frame |-> [columns |-> [i \in 1..Len(lines[1]) |-> JStr(lines[1][i])],
                           rows |-> [i \in 1..(Len(lines) - 1) |->
                                       PadRow([j \in 1..Len(lines[i + 1]) |->
                                                  CsvCell(lines[i + 1][j])],
                                              Len(lines[1]))]]]
          : lines \in {[i \in 1..Len(kept) |-> SplitFields(kept[i])]
                       : kept \in {SelectSeq(SplitLines(text), LAMBDA l : l # <<>>)}}})

---------------------------------------------------------------------------
(* The external client: what `fb -f JSONLines_Compact` and `fb -f CSV`     *)
(* print.                                                                  *)

RECURSIVE Join(_, _)
Join(parts, sep) ==
    IF parts = <<>> THEN <<>>
    ELSE IF Len(parts) = 1 THEN parts[1]
    ELSE parts[1] \o sep \o Join(Tail(parts), sep)

\* The compact JSON text of a value.
RECURSIVE Dumps(_)
Dumps(val) ==
    CASE val.t = "str" -> <<QUOTE>> \o val.v \o <<QUOTE>>
      [] val.t = "num" -> val.v
      [] val.t = "null" -> <<"null">>
      [] val.t = "arr" ->
           <<"[">> \o Join([i \in 1..Len(val.v) |-> Dumps(val.v[i])], <<",">>)
                   \o <<"]">>
      [] val.t = "obj" ->
           <<"{">> \o Join([i \in 1..Len(val.v) |->
                              <<QUOTE>> \o val.v[i][1] \o <<QUOTE, ":">>
                                  \o Dumps(val.v[i][2])], <<",">>)
                   \o <<"}">>

\* A START message declaring the columns named in cols (lines 186-189).
StartMessage(cols) ==
    JObj(<< <<<<"message_type">>, JStr(<<"START">>)>>,
            <<<<"result_columns">>,
              JArr([i \in 1..Len(cols) |-> JObj(<< <<<<"name">>, cols[i]>> >>)])>> >>)

\* A DATA message carrying rows, each a sequence of cells (lines 191-194).
DataMessage(rows) ==
    JObj(<< <<<<"message_type">>, JStr(<<"DATA">>)>>,
            <<<<"data">>, JArr([i \in 1..Len(rows) |-> JArr(rows[i])])>> >>)

\* A printed line: its kind, what it declares or carries, and its text.
Line(kind, cols, rows, text) ==
    [kind |-> kind, cols |-> cols, rows |-> rows, text |-> text, cuts |-> <<>>]

StartLine(cols) == Line("START", cols, <<>>, Dumps(StartMessage(cols)))
DataLine(rows) == Line("DATA", <<>>, rows, Dumps(DataMessage(rows)))

ColA == JStr(<<"a">>)
ColB == JStr(<<"b">>)
One == JNum(<<"1">>)
Two == JNum(<<"2">>)

\* Well-formed messages whose text is printable ASCII.
StartLines == {StartLine(<<ColA>>), StartLine(<<ColA, ColB>>)}
DataLines ==
    {DataLine(<<>>), DataLine(<< <<One>> >>), DataLine(<< <<Two>> >>),
     DataLine(<< <<One, Two>> >>)}

\* A well-formed DATA message with a non-ASCII letter in a cell.
NonAsciiLines == {DataLine(<< <<JStr(<<"<e-acute>">>)>> >>)}

\* Candidates that are not well-formed messages: text that is no JSON, a
\* START message whose column entry has no name, JSON that is no object.
MalformedLines ==
    {Line("malformed", <<>>, <<>>, <<"{", "x", "}">>),
     Line("malformed", <<>>, <<>>,
          Dumps(JObj(<< <<<<"message_type">>, JStr(<<"START">>)>>,
                        <<<<"result_columns">>, JArr(<<JObj(<<>>)>>)>> >>))),
     Line("malformed", <<>>, <<>>, <<"1", "2">>)}

\* A timing line and a progress line with a terminal control byte.
MetadataLines == {Line("metadata", <<>>, <<>>, <<"Time:", SP, "1">>)}
StatusLines == {Line("status", <<>>, <<>>, <<"<ESC>", "x">>)}

Lines == StartLines \cup DataLines \cup NonAsciiLines \cup MalformedLines
            \cup MetadataLines \cup StatusLines

\* The messages a client that cuts messages prints, whole or in three
\* pieces.
SplitLinesOf ==
    {StartLine(<<ColA>>), DataLine(<< <<JStr(<<"Time:", SP, "b">>)>> >>)}

\* What the CSV invocation prints.
CsvOutputs ==
    {<<>>,
     <<"a", LF>>,
     <<"a", LF, "1", LF>>,
     <<"a", ",", "b", LF, "1", ",", "2", LF, "2", LF>>,
     <<"a", LF, "1", LF, "1", ",", "2", LF>>}

---------------------------------------------------------------------------
(* Bounds *)

\* Lines the client prints before the decoder is applied to its output.
MaxLines == 4
\* Lines the primary invocation of execute_query prints.
RunnerLines == 2
\* The timeout argument is 1..MaxTimeout ticks.
MaxTimeout == 2

\* Lines the primary invocation of execute_query prints.
RunnerLinesOf ==
    {l \in Lines : l.kind \in {"START", "malformed"}}
        \cup {DataLine(<< <<One>> >>), DataLine(<< <<One, Two>> >>)}

\* Query texts execute_query is called with.
Queries == {"SELECT 1 as test", "SELECT COUNT(*) FROM violations"}

\* Ticks spent outside the external process: decoding, killing a process
\* that timed out, failing to launch one.
Overheads == {0, 1}

---------------------------------------------------------------------------
(* State *)

NotParsed == [called |-> FALSE, exc |-> "none", frame |-> EmptyDataFrame]
Called(result) == [called |-> TRUE, exc |-> result.exc, frame |-> result.frame]
NoReturn == [df |-> EmptyDataFrame, elapsed |-> 0, success |-> FALSE]

\* A subprocess.run call: the output format, the query text and the timeout
\* it was given, how it ended
\* ("running", "exit", "timeout", "raised"), the return code of a process
\* that exited, and when it was started and ended.
Run(format, q, t, started) ==
    [format |-> format, query |-> q, timeout |-> t, end |-> "running",
     returncode |-> 0, started |-> started, ended |-> started]

Ended(run, how, code, at) ==
    [run EXCEPT !.end = how, !.returncode = code, !.ended = at]

\* Printed lines so far: a message printed in pieces counts three.
Printed(items) ==
    Len(items) + 2 * Cardinality({i \in 1..Len(items) : items[i].cuts # <<>>})

\* The value execute_query returns.
Return(frame, elapsed, success) ==
    [df |-> frame, elapsed |-> elapsed, success |-> success]

---------------------------------------------------------------------------
(* The client printing *)

\* The client prints one line.
PrintLine(l) ==
    /\ \/ pc = "printing" /\ Printed(sent) < MaxLines /\ l \in Lines \cup SplitLinesOf
       \/ pc = "primary" /\ Printed(sent) < RunnerLines /\ l \in RunnerLinesOf
    /\ stdout' = stdout \o l.text \o <<LF>>
    /\ sent' = Append(sent, l)
    /\ UNCHANGED <<appvars, filevars, query, pc, timeout, now, start_time, execution_time, runs, parsed, ret>>

\* The client prints one message in three pieces, cut after its i-th and
\* its j-th character.
PrintSplit(l, i, j) ==
    /\ pc = "printing"
    /\ Printed(sent) + 3 <= MaxLines
    /\ 1 <= i /\ i < j /\ j < Len(l.text)
    /\ l \in SplitLinesOf
    /\ stdout' = stdout \o SubSeq(l.text, 1, i) \o <<LF>>
                        \o SubSeq(l.text, i + 1, j) \o <<LF>>
                        \o SubSeq(l.text, j + 1, Len(l.text)) \o <<LF>>
    /\ sent' = Append(sent, [l EXCEPT !.cuts = <<i, j>>])
    /\ UNCHANGED <<appvars, filevars, query, pc, timeout, now, start_time, execution_time, runs, parsed, ret>>

\* _parse_jsonlines_output applied to what was printed.
Decode ==
    /\ pc = "printing"
    /\ pc' = "decoded"
    /\ parsed' = Called(ParseJsonlinesOutput(stdout))
    /\ UNCHANGED <<appvars, filevars, query, timeout, now, start_time, execution_time, stdout, sent, runs, ret>>

---------------------------------------------------------------------------
(* FireboltConnector.execute_query *)

\* Lines 81-95: the call starts the primary invocation.
Call(q, t) ==
    /\ pc = "idle"
    /\ q \in Queries
    /\ t \in 1..MaxTimeout
    /\ query' = q
    /\ timeout' = t
    /\ start_time' = now
    /\ runs' = <<Run("JSONLines_Compact", q, t, now)>>
    /\ pc' = "primary"
    /\ UNCHANGED <<appvars, filevars, now, execution_time, stdout, sent, parsed, ret>>

\* Line 99 with the return code not looked at.
SucceededAlways(returncode) == TRUE

\* Line 99: result.returncode == 0.
Succeeded(returncode) == returncode = 0

\* Line 126 with the measured time in place of the timeout.
OnTimeoutMeasured(t, measured) == Return(EmptyDataFrame, measured, FALSE)

\* Line 126 with a frame of one row returned beside the failure.
OnTimeoutWithRows(t, measured) ==
    Return([columns |-> <<JStr(<<"n">>)>>, rows |-> << <<One>> >>], t, FALSE)

\* Line 126: what the TimeoutExpired handler returns.
OnTimeout(t, measured) == Return(EmptyDataFrame, t, FALSE)

\* Line 104 with the fallback never taken.
NeedsFallbackNever(decoded) == FALSE

\* Line 104 reached although the decoder raised.
NeedsFallbackAfterRaise(decoded) == IsEmpty(decoded.frame)

\* Line 104: the decoder returned, and df.empty.
NeedsFallback(decoded) == decoded.exc = "none" /\ IsEmpty(decoded.frame)

\* Lines 116 and 118 with the time measured when execute_query returns.
SuccessElapsedAtReturn(captured, measured) == measured

\* Lines 116 and 118: the success returns carry the execution_time
\* captured at line 97.
SuccessElapsed(captured, measured) == captured

\* Lines 127-134 with the handlers reporting success.
OnExceptionSucceeds(measured) == Return(EmptyDataFrame, measured, TRUE)

\* Lines 127-134: what the handlers of FileNotFoundError and of Exception
\* return.
OnException(measured) == Return(EmptyDataFrame, measured, FALSE)

\* Lines 127-134: subprocess.run raises (FileNotFoundError or another
\* exception) instead of running the client.
RunRaises(late) ==
    /\ pc \in {"primary", "fallback"}
    /\ late \in Overheads
    /\ pc = "primary" => sent = <<>>
    /\ now' = now + late
    /\ runs' = [runs EXCEPT ![Len(runs)] = Ended(@, "raised", 0, now')]
    /\ ret' = OnException(now' - start_time)
    /\ pc' = "done"
    /\ UNCHANGED <<appvars, filevars, query, timeout, start_time, execution_time, stdout, sent, parsed>>

\* Lines 124-126: the invocation in progress does not finish within the
\* timeout; subprocess.run kills it and raises TimeoutExpired.
RunTimesOut(kill) ==
    /\ pc \in {"primary", "fallback"}
    /\ kill \in Overheads
    /\ now' = now + timeout + kill
    /\ runs' = [runs EXCEPT ![Len(runs)] = Ended(@, "timeout", 0, now')]
    /\ ret' = OnTimeout(timeout, now' - start_time)
    /\ pc' = "done"
    /\ UNCHANGED <<appvars, filevars, query, timeout, start_time, execution_time, stdout, sent, parsed>>

\* Lines 97-122: the primary invocation exits with returncode after d
\* ticks; decoding its output takes dec ticks.
PrimaryExits(returncode, d, dec) ==
    /\ pc = "primary"
    /\ returncode \in {0, 1}
    /\ d \in 1..timeout
    /\ dec \in Overheads
    /\ execution_time' = now + d - start_time
    /\ \E decoded \in {IF Succeeded(returncode) /\ Strip(stdout) # <<>>
                       THEN Called(ParseJsonlinesOutput(stdout))
                       ELSE NotParsed},
          done \in {Ended(runs[1], "exit", returncode, now + d)} :
          /\ parsed' = decoded
          /\ IF ~decoded.called
             THEN /\ now' = now + d
                  /\ runs' = <<done>>
                  /\ ret' = Return(EmptyDataFrame, execution_time',
                                   Succeeded(returncode))
                  /\ pc' = "done"
             ELSE /\ now' = now + d + dec
                  /\ IF NeedsFallback(decoded)
                     THEN /\ runs' = <<done, Run("CSV", query, timeout, now')>>
                          /\ ret' = ret
                          /\ pc' = "fallback"
                     ELSE IF decoded.exc # "none"
                     THEN /\ runs' = <<done>>
                          /\ ret' = OnException(now' - start_time)
                          /\ pc' = "done"
                     ELSE /\ runs' = <<done>>
                          /\ ret' = Return(decoded.frame,
                                           SuccessElapsed(execution_time',
                                                          now' - start_time),
                                           TRUE)
                          /\ pc' = "done"
    /\ UNCHANGED <<appvars, filevars, query, timeout, start_time, stdout, sent>>

\* Lines 111-115: read_csv, and an empty frame when it raises.
ReadCsvOrEmpty(csv) ==
    Only({IF read.exc = "none" THEN read.frame ELSE EmptyDataFrame
          : read \in {ReadCsv(csv)}})

\* Lines 109-116: the CSV invocation exits with returncode after d ticks,
\* having printed csv.
FallbackExits(returncode, d, csv) ==
    /\ pc = "fallback"
    /\ returncode \in {0, 1}
    /\ d \in 1..timeout
    /\ csv \in CsvOutputs
    /\ now' = now + d
    /\ runs' = [runs EXCEPT ![2] = Ended(@, "exit", returncode, now')]
    /\ \E frame \in {IF returncode = 0 /\ Strip(csv) # <<>>
                     THEN ReadCsvOrEmpty(csv)
                     ELSE parsed.frame} :
          ret' = Return(frame, SuccessElapsed(execution_time, now' - start_time), TRUE)
    /\ pc' = "done"
    /\ UNCHANGED <<appvars, filevars, query, timeout, start_time, execution_time, stdout, sent, parsed>>

---------------------------------------------------------------------------
(* SQL texts of the dashboard.  A text is a sequence of atoms; an atom is  *)
(* a stretch of SQL that the operations below never look into, a           *)
(* placeholder of a template, or a value put in by the user.               *)

\* An amount as the slider or the caller gives it: a whole number that is
\* a Python int or a Python float.
Amount(val, float) == [val |-> val, float |-> float]

\* f"{x}" of an amount: 10 for the int, 10.0 for the float.
AmountText(a) == IF a.float THEN <<ToString(a.val), ".0">> ELSE <<ToString(a.val)>>

\* The placeholders of the templates (lines 366-368 and alike).
StreetPlaceholder == "{street_filter}"
AmountPlaceholder == "{amount_filter}"
CarPlaceholder == "{car_filter}"

\* BENCHMARK_QUERIES[query_id]["sql"] (lines 353-456): the text before the
\* placeholders, the three placeholders, the text after them.
BenchmarkIds == {"Q1", "Q2", "Q3", "Q4", "Q5"}

TemplateHead(query_id) ==
    CASE query_id = "Q1" ->
           <<"SELECT COUNT(*) ... FROM ", "violations", " WHERE ",
             "calculated_fine_amount > 0 ">>
      [] query_id = "Q2" ->
           <<"SELECT street_name, ... FROM ", "violations", " WHERE ",
             "street_name IS NOT NULL AND street_name != '' ",
             "AND calculated_fine_amount > 0 ">>
      [] query_id = "Q3" ->
           <<"SELECT vehicle_make, ... FROM ", "violations", " WHERE ",
             "vehicle_make IS NOT NULL ", "AND calculated_fine_amount > 0 ">>
      [] query_id = "Q4" ->
           <<"SELECT EXTRACT(YEAR FROM issue_date) as year, ... FROM ",
             "violations", " WHERE ", "issue_date IS NOT NULL ",
             "AND calculated_fine_amount > 0 ",
             "AND EXTRACT(YEAR FROM issue_date) BETWEEN 2010 AND 2024 ">>
      [] query_id = "Q5" ->
           <<"SELECT summons_number, ... FROM ", "violations", " WHERE ",
             "calculated_fine_amount > 0 ">>

TemplateTail(query_id) ==
    CASE query_id = "Q1" -> <<>>
      [] query_id = "Q2" ->
           <<" GROUP BY street_name ORDER BY total_revenue DESC LIMIT 10">>
      [] query_id = "Q3" ->
           <<" GROUP BY vehicle_make ORDER BY violations DESC LIMIT 10">>
      [] query_id = "Q4" ->
           <<" GROUP BY EXTRACT(YEAR FROM issue_date) ORDER BY year">>
      [] query_id = "Q5" ->
           <<" ORDER BY calculated_fine_amount DESC LIMIT 100">>

Template(query_id) ==
    TemplateHead(query_id)
        \o <<StreetPlaceholder, " ", AmountPlaceholder, " ", CarPlaceholder>>
        \o TemplateTail(query_id)

\* The fragments a filter contributes.
StreetFragment(street_filter) == <<"street_name = '", street_filter, "'">>
CarFragment(car_filter) == <<"vehicle_make = '", car_filter, "'">>
AmountFragment(amount_range) ==
    <<"calculated_fine_amount BETWEEN ">> \o AmountText(amount_range[1])
        \o <<" AND ">> \o AmountText(amount_range[2])

\* Line 858.
StreetClause(street_filter) ==
    IF street_filter # "" THEN <<"AND ">> \o StreetFragment(street_filter) ELSE <<>>

\* Line 859.
AmountClause(amount_range) == <<"AND ">> \o AmountFragment(amount_range)

\* Line 860 with the street column in place of the vehicle make.
CarClauseOnStreet(car_filter) ==
    IF car_filter # "" THEN <<"AND ">> \o StreetFragment(car_filter) ELSE <<>>

\* Line 860.
CarClause(car_filter) ==
    IF car_filter # "" THEN <<"AND ">> \o CarFragment(car_filter) ELSE <<>>

\* sql.format(street_filter=..., amount_filter=..., car_filter=...) (lines
\* 862-866): every placeholder is replaced by the text given for it.
RECURSIVE Format(_, _, _, _)
Format(sql, street_clause, amount_clause, car_clause) ==
    IF sql = <<>> THEN <<>>
    ELSE (CASE Head(sql) = StreetPlaceholder -> street_clause
            [] Head(sql) = AmountPlaceholder -> amount_clause
            [] Head(sql) = CarPlaceholder -> car_clause
            [] OTHER -> <<Head(sql)>>)
         \o Format(Tail(sql), street_clause, amount_clause, car_clause)

\* Lines 855-866: the SQL execute_benchmark_query runs.
BenchmarkSql(query_id, street_filter, amount_range, car_filter) ==
    Format(Template(query_id), StreetClause(street_filter),
           AmountClause(amount_range), CarClause(car_filter))

\* How often the text part occurs in the text sql.
Occurrences(sql, part) ==
    Cardinality({i \in 1..(Len(sql) - Len(part) + 1) :
                    SubSeq(sql, i, i + Len(part) - 1) = part})

\* str.upper and str.lower on the atoms whose case the code looks at.
UpperOf(atom) ==
    CASE atom \in {" where ", " Where "} -> " WHERE "
      [] atom = "violations" -> "VIOLATIONS"
      [] OTHER -> atom

LowerOf(atom) ==
    CASE atom \in {" WHERE ", " Where "} -> " where "
      [] atom = "VIOLATIONS" -> "violations"
      [] OTHER -> atom

\* Line 902: 'violations' in sql.lower().
MentionsViolations(sql) == \E i \in 1..Len(sql) : LowerOf(sql[i]) = "violations"

\* Line 918: ' WHERE ' in sql.upper() or ' where ' in sql.
HasWhere(sql) ==
    \/ \E i \in 1..Len(sql) : UpperOf(sql[i]) = " WHERE "
    \/ \E i \in 1..Len(sql) : sql[i] = " where "

\* sql.rstrip(';').
RECURSIVE RStripSemicolons(_)
RStripSemicolons(sql) ==
    IF sql # <<>> /\ Last(sql) = ";"
    THEN RStripSemicolons(SubSeq(sql, 1, Len(sql) - 1))
    ELSE sql

\* (0.0, 200.0), the range execute_custom_query takes for "no amount
\* filter" (lines 904 and 911) and main takes when no amounts are loaded.
DefaultRange == <<Amount(0, TRUE), Amount(200, TRUE)>>

\* amount_range != (0.0, 200.0): Python compares the numbers.
IsDefaultRange(amount_range) ==
    amount_range[1].val = DefaultRange[1].val /\ amount_range[2].val = DefaultRange[2].val

\* Lines 905-912: the conditions of the selected filters.
Conditions(street_filter, amount_range, car_filter) ==
    (IF street_filter # "" THEN <<StreetFragment(street_filter)>> ELSE <<>>)
        \o (IF car_filter # "" THEN <<CarFragment(car_filter)>> ELSE <<>>)
        \o (IF ~IsDefaultRange(amount_range)
            THEN <<AmountFragment(amount_range)>> ELSE <<>>)

\* Lines 898-921: the SQL execute_custom_query runs.
CustomSql(custom_sql, apply_filters, street_filter, amount_range, car_filter) ==
    Only({IF apply_filters /\ MentionsViolations(sql) /\ conditions # <<>>
          THEN IF HasWhere(sql)
               THEN RStripSemicolons(sql) \o <<" AND (">>
                        \o Join(conditions, <<" AND ">>) \o <<")">>
               ELSE RStripSemicolons(sql) \o <<" WHERE ">>
                        \o Join(conditions, <<" AND ">>)
          ELSE sql
          : sql \in {Strip(custom_sql)},
            conditions \in {Conditions(street_filter, amount_range, car_filter)}})

\* The queries of get_filter_data (lines 272, 280, 288-298) and the column
\* each result is read from (lines 274, 282, 300).
FilterKeys == <<"streets", "amounts", "cars">>
FilterColumns == <<"street_name", "calculated_fine_amount", "vehicle_make">>
FilterQueries ==
    <<<<"SELECT DISTINCT street_name FROM ", "violations", " WHERE ", "... LIMIT 1000">>,
      <<"SELECT DISTINCT calculated_fine_amount FROM ", "violations", " WHERE ",
        "... LIMIT 1000">>,
      <<"SELECT vehicle_make FROM ", "violations", " WHERE ", "... LIMIT 50">>>>

\* Line 210: the query of test_connection.
TestQuery == <<"SELECT 1 as test">>

---------------------------------------------------------------------------
(* Bounds and inputs of the dashboard *)

\* Query runs between two Clear Results.
MaxRuns == 2
\* The clock of a session runs from 0 to MaxClock seconds.
MaxClock == 1
\* get_filter_data calls between two clearings of the cache.
MaxFetches == 3
\* The clock of the cache runs over MaxWindows times the time to live.
MaxWindows == 2

\* Line 259: ttl=300.
CacheTtl == 300
\* Line 76: timeout: int = 60.
DefaultTimeout == 60
\* Line 210: timeout=10.
TestTimeout == 10

\* Tables execute_query returns.
StreetTable ==
    [columns |-> <<JStr(<<"street_name">>)>>,
     rows |-> << <<JStr(<<"Broadway">>)>> >>]
CountTable == [columns |-> <<JStr(<<"n">>)>>, rows |-> << <<One>>, <<Two>> >>]
Tables == {StreetTable, CountTable}

\* Rows a benchmark query with GROUP BY may return.
MaxStreets == 2
StreetNames == <<"Broadway", "5th Ave", "Main St", "Canal St">>

\* Lines 359-363: the columns of Q1, an aggregate without GROUP BY, which
\* returns one row.
SummaryTable ==
    [columns |-> <<JStr(<<"total_violations">>), JStr(<<"total_fines">>),
                   JStr(<<"avg_fine">>), JStr(<<"min_fine">>), JStr(<<"max_fine">>)>>,
     rows |-> << <<Two, Two, One, One, One>> >>]

\* Lines 376-389: the columns of Q2, one row for each of n streets.
RevenueTable(n) ==
    [columns |-> <<JStr(<<"street_name">>), JStr(<<"total_violations">>),
                   JStr(<<"total_revenue">>), JStr(<<"avg_fine">>)>>,
     rows |-> [i \in 1..n |-> <<JStr(<<StreetNames[i]>>), One, Two, Two>>]]

\* The tables the database may return for a query of the dashboard.
ResultTables(query_id) ==
    CASE query_id = "Q1" -> {SummaryTable}
      [] query_id = "Q2" -> {RevenueTable(n) : n \in 1..MaxStreets}
      [] OTHER -> {CountTable}
BenchmarkTables == ResultTables("Q1") \cup ResultTables("Q2")

\* Lines 273, 281, 289: the table of the filter query of a stage, one
\* column of two values.
FilterTable(stage) ==
    [columns |-> <<JStr(<<FilterColumns[stage]>>)>>,
     rows |-> << <<One>>, <<Two>> >>]
FilterTables == {FilterTable(stage) : stage \in 1..Len(FilterQueries)}

\* What the query of the stage in progress may return: its own table, or
\* a table without its column.
StageTables(c) ==
    IF c.op = "filter" THEN {FilterTable(c.stage), CountTable} ELSE {CountTable}

\* Values of the filter widgets (lines 516, 526, 532-541).
Streets == {"", "Broadway"}
Cars == {"", "FORD"}
AmountRanges == {DefaultRange, <<Amount(10, FALSE), Amount(50, FALSE)>>}

\* Texts typed into the custom query box (line 680).
CustomSqls ==
    {<<"SELECT * FROM ", "violations", ";", SP>>,
     <<"SELECT * FROM ", "violations", " where ", "fine > 1">>,
     <<"SELECT 1">>}

\* Lines 460-464: sample queries put into the custom query box, the first
\* and the second one, and a query whose WHERE stands at the start of a
\* line.
SampleSqls ==
    {<<"SELECT COUNT(*) as total_violations FROM ", "violations">>,
     <<"SELECT street_name, COUNT(*) as violations FROM ", "violations",
       " GROUP BY ", "street_name", " ORDER BY ", "violations DESC", " LIMIT ",
       "10">>,
     <<"SELECT * FROM ", "violations", LF, "WHERE", SP, "fine > 1">>}

\* The number a JSON number of the digits 1 and 2 stands for.
RECURSIVE NumberOf(_)
NumberOf(digits) ==
    IF digits = <<>> THEN 0
    ELSE 10 * NumberOf(SubSeq(digits, 1, Len(digits) - 1))
             + (IF Last(digits) = "1" THEN 1 ELSE 2)

\* Lists of available amounts get_filter_data returned.
AmountLists == {<<>>, <<JNum(<<"1">>), JNum(<<"2">>)>>}

\* min(available_amounts) and max(available_amounts) (lines 530-531, 548).
MinAmount(available_amounts) ==
    MinOf({NumberOf(available_amounts[i].v) : i \in 1..Len(available_amounts)})
MaxAmount(available_amounts) ==
    MaxOf({NumberOf(available_amounts[i].v) : i \in 1..Len(available_amounts)})

\* Lines 529-541: the values amount_range can take, the slider's pairs of
\* floats between the least and the greatest available amount, or
\* (0.0, 200.0) when no amounts are available.
SliderValues(available_amounts) ==
    IF available_amounts # <<>>
    THEN {r \in {<<Amount(lo, TRUE), Amount(hi, TRUE)>> :
                  lo \in MinAmount(available_amounts)..MaxAmount(available_amounts),
                  hi \in MinAmount(available_amounts)..MaxAmount(available_amounts)} :
             r[1].val <= r[2].val}
    ELSE {DefaultRange}

\* Line 548: the active-filter summary lists an Amount filter.
AmountListed(amount_range, available_amounts) ==
    IF available_amounts # <<>>
    THEN \/ amount_range[1].val # MinAmount(available_amounts)
         \/ amount_range[2].val # MaxAmount(available_amounts)
    ELSE ~IsDefaultRange(amount_range)

\* Connector objects get_filter_data is called with.
Connectors == {"connector", "other connector"}

---------------------------------------------------------------------------
(* State of the dashboard *)

EmptyFilterData == [streets |-> <<>>, amounts |-> <<>>, cars |-> <<>>]

\* No entry in the cache of get_filter_data.
NoCache == [valid |-> FALSE, stored |-> 0, value |-> EmptyFilterData]

\* The locals of the operation that is inside execute_query: op is
\* "test", "filter", "benchmark" or "custom"; stage counts the queries of
\* get_filter_data.
Locals(op, query_id, sql, original_sql, filters_applied, t, stage, lists, connector, called) ==
    [op |-> op, query_id |-> query_id, sql |-> sql,
     original_sql |-> original_sql, filters_applied |-> filters_applied,
     timeout |-> t, stage |-> stage, lists |-> lists, connector |-> connector,
     called |-> called, started |-> called, execution_time |-> 0]

NoCaller ==
    Locals("none", <<"", 0>>, <<>>, <<>>, FALSE, 0, 0, EmptyFilterData, "", 0)

\* Lines 872-878 and 931-941: the record of a run.
Record(c, res, timestamp) ==
    [data |-> res.df,
     execution_time |-> res.elapsed,
     row_count |-> IF res.success THEN Len(res.df.rows) ELSE 0,
     success |-> res.success,
     timestamp |-> timestamp,
     name |-> IF c.op = "custom" THEN "Custom Query" ELSE "",
     sql |-> IF c.op = "custom" THEN c.sql ELSE <<>>,
     original_sql |-> IF c.op = "custom" THEN c.original_sql ELSE <<>>,
     filters_applied |-> c.op = "custom" /\ c.filters_applied]

\* What execute_query reported to test_connection: the success flag and
\* the number of rows of the frame.
NotTested == [called |-> FALSE, success |-> FALSE, rows |-> 0]
Tested(res) == [called |-> TRUE, success |-> res.success, rows |-> Len(res.df.rows)]

\* Line 211 with the connection held good only when rows came back.
ConnectedByRows(res) == res.success /\ ~IsEmpty(res.df)

\* Line 211: return success.
Connected(res) == res.success

\* The dashboard before anything was clicked.
AppInit ==
    /\ script = "ready"
    /\ caller = NoCaller
    /\ procs = 0
    /\ clock = 0
    /\ query_results = <<>>
    /\ latest_query = <<"", 0>>
    /\ query_execution_order = <<>>
    /\ cache = NoCache
    /\ connected = FALSE
    /\ tested = NotTested
    /\ filter_data = EmptyFilterData
    /\ ran = <<>>
    /\ fetched = <<>>

---------------------------------------------------------------------------
(* execute_query as the dashboard sees it: the call blocks the script      *)
(* thread while the primary invocation runs and, when that one exited with *)
(* code 0 and decoded to an empty frame, while the CSV invocation runs.    *)

\* subprocess.run returned without the process having ended.
ReapedNot(running) == running

\* Lines 90-95 and 109: when subprocess.run returns or raises
\* TimeoutExpired the process has exited or was killed.
Reaped(running) == running - 1

\* Lines 81-95: op calls execute_query(sql, timeout=t).
Launch(c) ==
    /\ script' = "primary"
    /\ caller' = c
    /\ procs' = procs + 1

\* df[name].tolist() (lines 274, 282, 300); exc is KeyError when the frame
\* has no column of that name.
Column(df, name) ==
    IF \E i \in 1..Len(df.columns) : df.columns[i] = JStr(<<name>>)
    THEN [exc |-> "none",
          values |-> Only({[r \in 1..Len(df.rows) |-> df.rows[r][i]]
                           : i \in {MinOf({j \in 1..Len(df.columns) :
                                              df.columns[j] = JStr(<<name>>)})}})]
    ELSE [exc |-> "KeyError", values |-> <<>>]

\* Lines 271-302 with one try statement around the three queries: a
\* query that gives no list leaves every list empty.
ListedOrNothing(c, res) ==
    IF res.success /\ ~IsEmpty(res.df)
    THEN Only({IF col.exc = "none"
               THEN [c.lists EXCEPT ![FilterKeys[c.stage]] = col.values]
               ELSE EmptyFilterData
               : col \in {Column(res.df, FilterColumns[c.stage])}})
    ELSE EmptyFilterData

\* Lines 271-276, 279-284, 287-302: filter_data after the query of stage
\* c.stage returned res.
Listed(c, res) ==
    IF res.success /\ ~IsEmpty(res.df)
    THEN Only({IF col.exc = "none"
               THEN [c.lists EXCEPT ![FilterKeys[c.stage]] = col.values]
               ELSE c.lists
               : col \in {Column(res.df, FilterColumns[c.stage])}})
    ELSE c.lists

\* A call of get_filter_data: the connector passed, when it was called and
\* when it returned, what it returned and how many queries it issued.
Fetch(connector, called, returned, value, queries) ==
    [connector |-> connector, called |-> called, returned |-> returned,
     value |-> value, queries |-> queries]

\* Lines 882-884 and 945-947 with the query_id appended and never removed.
ExecutionOrderAppended(order, query_id) == Append(order, query_id)

\* Lines 882-884 and 945-947: the query_id is removed from the order when
\* it is there, and appended.
ExecutionOrder(order, query_id) ==
    Append(SelectSeq(order, LAMBDA id : id # query_id), query_id)

\* Lines 872-884 and 931-947: the run is stored under its query_id.
Store(res) ==
    /\ query_results' =
           DictPut(query_results, caller.query_id, Record(caller, res, clock))
    /\ latest_query' = caller.query_id
    /\ query_execution_order' =
           ExecutionOrder(query_execution_order, caller.query_id)
    /\ ran' = Append(ran, [query_id |-> caller.query_id, op |-> caller.op])

\* execute_query returned res to the operation that called it, running
\* processes being left: the rest of test_connection (line 211), of
\* execute_benchmark_query (lines 871-889), of execute_custom_query (lines
\* 930-956), or of get_filter_data (lines 273-304), which calls
\* execute_query again for its next query.
Resume(res, running) ==
    /\ clock' = clock
    /\ connected' = IF caller.op = "test" THEN Connected(res) ELSE connected
    /\ tested' = IF caller.op = "test" THEN Tested(res) ELSE tested
    /\ IF caller.op \in {"benchmark", "custom"}
       THEN Store(res)
       ELSE UNCHANGED <<query_results, latest_query, query_execution_order, ran>>
    /\ \E lists \in {IF caller.op = "filter" THEN Listed(caller, res)
                      ELSE EmptyFilterData} :
          IF caller.op = "filter" /\ caller.stage < Len(FilterQueries)
          THEN /\ script' = "primary"
               /\ caller' = [caller EXCEPT !.stage = @ + 1,
                                           !.lists = lists,
                                           !.sql = FilterQueries[caller.stage + 1],
                                           !.started = clock,
                                           !.execution_time = 0]
               /\ procs' = running + 1
               /\ UNCHANGED <<cache, filter_data, fetched>>
          ELSE /\ script' = "ready"
               /\ caller' = NoCaller
               /\ procs' = running
               /\ IF caller.op = "filter"
                  THEN /\ cache' = [valid |-> TRUE, stored |-> clock,
                                    value |-> lists]
                       /\ filter_data' = lists
                       /\ fetched' = Append(fetched,
                                            Fetch(caller.connector, caller.called,
                                                  clock, lists, caller.stage))
                  ELSE UNCHANGED <<cache, filter_data, fetched>>

\* Lines 97-134: the primary invocation ends.  kind is "rows" (exit code 0
\* and a table decoded), "blank" (exit code 0 and nothing printed),
\* "empty" (exit code 0 and an empty frame decoded: the CSV invocation is
\* started), "failed" (another exit code, or an exception) or "timeout".
PrimaryEnds(kind, table) ==
    /\ script = "primary"
    /\ kind \in {"rows", "blank", "empty", "failed", "timeout"}
    /\ table \in Tables \cup BenchmarkTables \cup FilterTables
    /\ IF kind = "empty"
       THEN /\ script' = "fallback"
            /\ caller' = [caller EXCEPT !.execution_time = clock - caller.started]
            /\ procs' = Reaped(procs) + 1
            /\ UNCHANGED <<clock, query_results, latest_query,
                           query_execution_order, cache, connected, tested,
                           filter_data, ran, fetched>>
       ELSE Resume(CASE kind = "rows" ->
                          Return(table, clock - caller.started, TRUE)
                     [] kind = "blank" ->
                          Return(EmptyDataFrame, clock - caller.started, TRUE)
                     [] kind = "failed" ->
                          Return(EmptyDataFrame, clock - caller.started, FALSE)
                     [] kind = "timeout" ->
                          Return(EmptyDataFrame, caller.timeout, FALSE),
                   Reaped(procs))
    /\ UNCHANGED <<runvars, filevars>>

\* Lines 109-134: the CSV invocation ends.  kind is "rows" (a table
\* read), "none" (nothing to read: the empty frame is returned),
\* "failed" (subprocess.run raised) or "timeout".
FallbackEnds(kind, table) ==
    /\ script = "fallback"
    /\ kind \in {"rows", "none", "failed", "timeout"}
    /\ table \in Tables \cup BenchmarkTables \cup FilterTables
    /\ Resume(CASE kind = "rows" -> Return(table, caller.execution_time, TRUE)
                 [] kind = "none" ->
                      Return(EmptyDataFrame, caller.execution_time, TRUE)
                 [] kind = "failed" ->
                      Return(EmptyDataFrame, clock - caller.started, FALSE)
                 [] kind = "timeout" ->
                      Return(EmptyDataFrame, caller.timeout, FALSE),
              Reaped(procs))
    /\ UNCHANGED <<runvars, filevars>>

---------------------------------------------------------------------------
(* Operations of the dashboard *)

\* Lines 208-211: test_connection calls execute_query.
TestConnection ==
    /\ script = "ready"
    /\ Launch(Locals("test", <<"", 0>>, TestQuery, <<>>, FALSE, TestTimeout, 0,
                     EmptyFilterData, "", clock))
    /\ UNCHANGED <<clock, query_results, latest_query, query_execution_order,
                   cache, connected, tested, filter_data, ran, fetched>>
    /\ UNCHANGED <<runvars, filevars>>

\* The entry is returned whatever the time.
CacheHitForever(entry, t) == entry.valid

\* The entry is never returned.
CacheHitNever(entry, t) == FALSE

\* Line 259: st.cache_data(ttl=300) returns the stored value while the
\* entry is younger than the time to live.
CacheHit(entry, t) == entry.valid /\ t - entry.stored < CacheTtl

\* Lines 259-304: get_filter_data(_connector).  The argument is no part of
\* the cache key (its name starts with an underscore): a stored value is
\* returned whatever the connector, else the function body runs, first
\* the query of line 272.
GetFilterData(connector) ==
    /\ script = "ready"
    /\ connector \in Connectors
    /\ Len(fetched) < MaxFetches
    /\ IF CacheHit(cache, clock)
       THEN /\ filter_data' = cache.value
            /\ fetched' = Append(fetched,
                                 Fetch(connector, clock, clock, cache.value, 0))
            /\ UNCHANGED <<script, caller, procs>>
       ELSE /\ Launch(Locals("filter", <<"", 0>>, FilterQueries[1], <<>>, FALSE,
                             DefaultTimeout, 1, EmptyFilterData, connector, clock))
            /\ UNCHANGED <<filter_data, fetched>>
    /\ UNCHANGED <<clock, query_results, latest_query, query_execution_order,
                   cache, connected, tested, ran>>
    /\ UNCHANGED <<runvars, filevars>>

\* Lines 496-498: Refresh Cache, st.cache_data.clear().
ClearCache ==
    /\ script = "ready"
    /\ cache' = NoCache
    /\ fetched' = <<>>
    /\ UNCHANGED <<script, caller, procs, clock, query_results, latest_query,
                   query_execution_order, connected, tested, filter_data, ran>>
    /\ UNCHANGED <<runvars, filevars>>

\* Lines 849-869: execute_benchmark_query builds the SQL and calls
\* execute_query.
ExecuteBenchmark(query_id, street_filter, amount_range, car_filter) ==
    /\ script = "ready"
    /\ query_id \in BenchmarkIds
    /\ street_filter \in Streets
    /\ amount_range \in AmountRanges
    /\ car_filter \in Cars
    /\ Len(ran) < MaxRuns
    /\ Launch(Locals("benchmark", <<query_id, 0>>,
                     BenchmarkSql(query_id, street_filter, amount_range, car_filter),
                     <<>>, FALSE, DefaultTimeout, 0, EmptyFilterData, "", clock))
    /\ UNCHANGED <<clock, query_results, latest_query, query_execution_order,
                   cache, connected, tested, filter_data, ran, fetched>>
    /\ UNCHANGED <<runvars, filevars>>

\* Lines 892-926: execute_custom_query names the run after the second it
\* starts in, builds the SQL and calls execute_query.
ExecuteCustom(custom_sql, apply_filters, street_filter, amount_range, car_filter) ==
    /\ script = "ready"
    /\ custom_sql \in CustomSqls \cup SampleSqls
    /\ apply_filters \in BOOLEAN
    /\ street_filter \in Streets
    /\ amount_range \in AmountRanges \cup SliderValues(filter_data.amounts)
    /\ car_filter \in Cars
    /\ Len(ran) < MaxRuns
    /\ Launch(Locals("custom", <<"CQ_", clock>>,
                     CustomSql(custom_sql, apply_filters, street_filter,
                               amount_range, car_filter),
                     Strip(custom_sql), apply_filters, DefaultTimeout, 0,
                     EmptyFilterData, "", clock))
    /\ UNCHANGED <<clock, query_results, latest_query, query_execution_order,
                   cache, connected, tested, filter_data, ran, fetched>>
    /\ UNCHANGED <<runvars, filevars>>

\* Lines 714-718: Clear Results.
ClearResults ==
    /\ script = "ready"
    /\ query_results' = <<>>
    /\ latest_query' = <<"", 0>>
    /\ query_execution_order' = <<>>
    /\ ran' = <<>>
    /\ UNCHANGED <<script, caller, procs, clock, cache, connected, tested,
                   filter_data, fetched>>
    /\ UNCHANGED <<runvars, filevars>>

\* d seconds pass.
Tick(d) ==
    /\ clock' = clock + d
    /\ UNCHANGED <<script, caller, procs, query_results, latest_query,
                   query_execution_order, cache, connected, tested,
                   filter_data, ran, fetched>>
    /\ UNCHANGED <<runvars, filevars>>

---------------------------------------------------------------------------
(* The Execution Results table *)

\* Line 750: strftime("%H:%M:%S") tells the second of the day.
SecondsPerDay == 86400
TimestampText(timestamp) == timestamp % SecondsPerDay

\* Line 754: sort(key=Timestamp, reverse=True) puts entry i of the
\* dictionary above entry j when its text is the greater one and, the sort
\* being stable, when the texts are equal and i was inserted first.
SortsAbove(results, i, j) ==
    \/ TimestampText(results[i][2].timestamp) > TimestampText(results[j][2].timestamp)
    \/ /\ TimestampText(results[i][2].timestamp) = TimestampText(results[j][2].timestamp)
       /\ i < j

\* Lines 736-756: the query ids of the table, from the top row down.
ResultsTable(results) ==
    [row \in 1..Len(results) |->
        Only({results[i][1] : i \in {k \in 1..Len(results) :
                 Cardinality({j \in 1..Len(results) : SortsAbove(results, j, k)})
                     = row - 1}})]

---------------------------------------------------------------------------
(* create_visualizations *)

\* 'name' in data.columns
HasColumn(data, name) ==
    \E i \in 1..Len(data.columns) : data.columns[i] = JStr(<<name>>)

\* Line 1086: the columns of an integer or float dtype.
NumericColumns(data) ==
    {i \in 1..Len(data.columns) : \A r \in 1..Len(data.rows) : data.rows[r][i].t = "num"}

\* Lines 975-1098: what the loop of create_visualizations draws for one
\* stored result.
Visualization(result) ==
    IF IsEmpty(result.data) \/ ~result.success THEN "skipped"
    ELSE IF HasColumn(result.data, "total_violations") /\ Len(result.data.rows) = 1
         THEN "metrics"
    ELSE IF HasColumn(result.data, "street_name") /\ HasColumn(result.data, "total_revenue")
         THEN "revenue by street"
    ELSE IF HasColumn(result.data, "vehicle_make") /\ HasColumn(result.data, "violations")
         THEN "average fine by vehicle make"
    ELSE IF HasColumn(result.data, "year") /\ HasColumn(result.data, "violation_count")
         THEN "violations over time"
    ELSE IF HasColumn(result.data, "fine_category")
         THEN IF /\ HasColumn(result.data, "calculated_fine_amount")
                 /\ HasColumn(result.data, "issue_date")
              THEN "filtered violations"
              ELSE IF HasColumn(result.data, "violation_count")
                   THEN "violations by fine category"
                   ELSE "table only"
    ELSE IF Cardinality(NumericColumns(result.data)) >= 2
         THEN "data visualization"
         ELSE "table only"

---------------------------------------------------------------------------
(* DatasetDownloader.download_file (src/scripts/download_dataset.py) *)

\* Chunks of the content of a file on the server.
MaxChunks == 2
\* download_file calls of one session.
MaxDownloads == 3

Filenames == {"nyc_parking_2019.csv", "nyc_parking_2020.csv"}

\* Line 72: the content of a file as iter_content hands it out.
Content(filename) == [i \in 1..MaxChunks |-> <<filename, i>>]

\* A file of the data directory: whether it exists, and what was written.
NoFile == [exists |-> FALSE, written |-> <<>>]
File(written) == [exists |-> TRUE, written |-> written]

NoDownload == [at |-> "idle", filename |-> ""]

\* A download_file call that returned: its result and the file it left.
Downloaded(filename, returned, file) ==
    [filename |-> filename, returned |-> returned, file |-> file]

DataDirInit ==
    /\ data_dir = [filename \in Filenames |-> NoFile]
    /\ download = NoDownload
    /\ downloads = <<>>

\* Lines 57-65: download_file is called; a file that exists ends the call
\* with True, else the request is sent.
DownloadFile(filename) ==
    /\ download.at = "idle"
    /\ filename \in Filenames
    /\ Len(downloads) < MaxDownloads
    /\ IF data_dir[filename].exists
       THEN /\ downloads' = Append(downloads,
                                   Downloaded(filename, TRUE, data_dir[filename]))
            /\ download' = NoDownload
       ELSE /\ download' = [at |-> "requesting", filename |-> filename]
            /\ downloads' = downloads
    /\ UNCHANGED <<runvars, appvars, data_dir>>

\* Lines 65-66 and 84-86: requests.get or raise_for_status raises; the
\* call returns False.
RequestFails ==
    /\ download.at = "requesting"
    /\ downloads' = Append(downloads,
                           Downloaded(download.filename, FALSE,
                                      data_dir[download.filename]))
    /\ download' = NoDownload
    /\ UNCHANGED <<runvars, appvars, data_dir>>

\* Lines 66-70: the response is good and open(filepath, "wb") creates
\* the file.
OpenFile ==
    /\ download.at = "requesting"
    /\ data_dir' = [data_dir EXCEPT ![download.filename] = File(<<>>)]
    /\ download' = [download EXCEPT !.at = "writing"]
    /\ UNCHANGED <<runvars, appvars, downloads>>

\* Lines 72-75: the next chunk arrives and is written.
WriteChunk ==
    /\ download.at = "writing"
    /\ Len(data_dir[download.filename].written) < MaxChunks
    /\ data_dir' =
           [data_dir EXCEPT ![download.filename] =
               File(Append(@.written,
                           Content(download.filename)[Len(@.written) + 1]))]
    /\ UNCHANGED <<runvars, appvars, download, downloads>>

\* Lines 72 and 84-86: iter_content raises before the last chunk (the
\* connection broke); the with statement closes the file and the call
\* returns False.
ChunkFails ==
    /\ download.at = "writing"
    /\ Len(data_dir[download.filename].written) < MaxChunks
    /\ downloads' = Append(downloads,
                           Downloaded(download.filename, FALSE,
                                      data_dir[download.filename]))
    /\ download' = NoDownload
    /\ UNCHANGED <<runvars, appvars, data_dir>>

\* Lines 80-82: every chunk was written; the call returns True.
DownloadEnds ==
    /\ download.at = "writing"
    /\ Len(data_dir[download.filename].written) = MaxChunks
    /\ downloads' = Append(downloads,
                           Downloaded(download.filename, TRUE,
                                      data_dir[download.filename]))
    /\ download' = NoDownload
    /\ UNCHANGED <<runvars, appvars, data_dir>>

---------------------------------------------------------------------------
(* Specifications *)

\* execute_query, called once.
Init ==
    /\ pc = "idle"
    /\ query = ""
    /\ timeout = 0
    /\ now \in {0, 1}
    /\ start_time = 0
    /\ execution_time = 0
    /\ stdout = <<>>
    /\ sent = <<>>
    /\ runs = <<>>
    /\ parsed = NotParsed
    /\ ret = NoReturn
    /\ AppInit
    /\ DataDirInit

Next ==
    \/ \E q \in Queries, t \in 1..MaxTimeout : Call(q, t)
    \/ \E l \in RunnerLinesOf : PrintLine(l)
    \/ \E late \in Overheads : RunRaises(late)
    \/ \E kill \in Overheads : RunTimesOut(kill)
    \/ \E returncode \in {0, 1}, d \in 1..MaxTimeout, dec \in Overheads :
           PrimaryExits(returncode, d, dec)
    \/ \E returncode \in {0, 1}, d \in 1..MaxTimeout, csv \in CsvOutputs :
           FallbackExits(returncode, d, csv)

Spec == Init /\ [][Next]_vars

\* The decoder alone, applied to what a client printed.
DecoderInit ==
    /\ pc = "printing"
    /\ query = ""
    /\ timeout = 0
    /\ now = 0
    /\ start_time = 0
    /\ execution_time = 0
    /\ stdout = <<>>
    /\ sent = <<>>
    /\ runs = <<>>
    /\ parsed = NotParsed
    /\ ret = NoReturn
    /\ AppInit
    /\ DataDirInit

DecoderNext ==
    \/ \E l \in Lines : PrintLine(l)
    \/ Decode

SpecDecoder == DecoderInit /\ [][DecoderNext]_vars

\* The decoder alone, applied to what a client printed that prints
\* well-formed messages and cuts some of them in three pieces.
SplitNext ==
    \/ \E l \in SplitLinesOf \cup DataLines : PrintLine(l)
    \/ /\ Printed(sent) + 3 <= MaxLines
       /\ \E l \in SplitLinesOf :
             \E i \in 1..(Len(l.text) - 2) :
                \E j \in (i + 1)..(Len(l.text) - 1) : PrintSplit(l, i, j)
    \/ Decode

SpecSplit == DecoderInit /\ [][SplitNext]_vars

\* The dashboard: runs of benchmark and custom queries in one session.
SessionInit ==
    /\ pc = "idle"
    /\ query = ""
    /\ timeout = 0
    /\ now = 0
    /\ start_time = 0
    /\ execution_time = 0
    /\ stdout = <<>>
    /\ sent = <<>>
    /\ runs = <<>>
    /\ parsed = NotParsed
    /\ ret = NoReturn
    /\ AppInit
    /\ DataDirInit

SessionNext ==
    \/ \E query_id \in {"Q1", "Q2"} :
           ExecuteBenchmark(query_id, "Broadway", DefaultRange, "")
    \/ \E custom_sql \in CustomSqls, apply_filters \in BOOLEAN :
           ExecuteCustom(custom_sql, apply_filters, "", DefaultRange, "FORD")
    \/ ClearResults
    \/ clock < MaxClock /\ Tick(1)
    \/ \E kind \in {"rows", "blank", "empty", "failed", "timeout"} :
           PrimaryEnds(kind, CountTable)
    \/ \E kind \in {"rows", "none", "failed", "timeout"} :
           FallbackEnds(kind, CountTable)

SpecSession == SessionInit /\ [][SessionNext]_vars

\* The dashboard: benchmark runs that return the tables of their queries.
VisualNext ==
    \/ \E query_id \in {"Q1", "Q2"}, street_filter \in Streets :
           ExecuteBenchmark(query_id, street_filter, DefaultRange, "")
    \/ ClearResults
    \/ \E kind \in {"rows", "blank", "empty", "failed", "timeout"} :
           \E table \in ResultTables(caller.query_id[1]) : PrimaryEnds(kind, table)
    \/ \E kind \in {"rows", "none", "failed", "timeout"} :
           \E table \in ResultTables(caller.query_id[1]) : FallbackEnds(kind, table)

SpecVisual == SessionInit /\ [][VisualNext]_vars

\* DatasetDownloader: download_file calls, one after the other.
DownloadNext ==
    \/ \E filename \in Filenames : DownloadFile(filename)
    \/ RequestFails
    \/ OpenFile
    \/ WriteChunk
    \/ ChunkFails
    \/ DownloadEnds

SpecDownload == SessionInit /\ [][DownloadNext]_vars

\* The dashboard: get_filter_data, each of its queries returning its own
\* table, a table without its column, nothing, or failing.
FiltersNext ==
    \/ GetFilterData("connector")
    \/ ClearCache
    \/ \E kind \in {"rows", "blank", "empty", "failed", "timeout"} :
           \E table \in StageTables(caller) :
               PrimaryEnds(kind, table)
    \/ \E kind \in {"rows", "none", "failed", "timeout"} :
           \E table \in StageTables(caller) :
               FallbackEnds(kind, table)

SpecFilters == SessionInit /\ [][FiltersNext]_vars

\* The dashboard: the filter data and its cache.
CacheNext ==
    \/ TestConnection
    \/ \E connector \in Connectors : GetFilterData(connector)
    \/ ClearCache
    \/ \E d \in {CacheTtl - 1, CacheTtl} :
           clock + d <= MaxWindows * CacheTtl /\ Tick(d)
    \/ \E kind \in {"rows", "blank", "empty", "failed", "timeout"}, table \in Tables :
           PrimaryEnds(kind, table)
    \/ \E kind \in {"rows", "none", "failed", "timeout"}, table \in Tables :
           FallbackEnds(kind, table)

SpecCache == SessionInit /\ [][CacheNext]_vars

\* The dashboard: benchmark queries run under every setting of the filters.
TemplaterNext ==
    \/ \E query_id \in BenchmarkIds, street_filter \in Streets,
          amount_range \in AmountRanges, car_filter \in Cars :
           ExecuteBenchmark(query_id, street_filter, amount_range, car_filter)
    \/ ClearResults
    \/ \E kind \in {"rows", "blank", "empty", "failed", "timeout"} :
           PrimaryEnds(kind, CountTable)
    \/ \E kind \in {"rows", "none", "failed", "timeout"} :
           FallbackEnds(kind, CountTable)

SpecTemplater == SessionInit /\ [][TemplaterNext]_vars

\* The dashboard: custom queries run under every setting of the filters,
\* the lists of get_filter_data having been loaded.
CustomInit ==
    /\ pc = "idle"
    /\ query = ""
    /\ timeout = 0
    /\ now = 0
    /\ start_time = 0
    /\ execution_time = 0
    /\ stdout = <<>>
    /\ sent = <<>>
    /\ runs = <<>>
    /\ parsed = NotParsed
    /\ ret = NoReturn
    /\ script = "ready"
    /\ caller = NoCaller
    /\ procs = 0
    /\ clock = 0
    /\ query_results = <<>>
    /\ latest_query = <<"", 0>>
    /\ query_execution_order = <<>>
    /\ cache = NoCache
    /\ connected = FALSE
    /\ tested = NotTested
    /\ \E amounts \in AmountLists :
          filter_data = [EmptyFilterData EXCEPT !.amounts = amounts]
    /\ ran = <<>>
    /\ fetched = <<>>
    /\ DataDirInit

CustomNext ==
    \/ \E custom_sql \in CustomSqls \cup SampleSqls, apply_filters \in BOOLEAN,
          amount_range \in SliderValues(filter_data.amounts), car_filter \in Cars :
           ExecuteCustom(custom_sql, apply_filters, "", amount_range, car_filter)
    \/ ClearResults
    \/ \E kind \in {"rows", "blank", "empty", "failed", "timeout"} :
           PrimaryEnds(kind, CountTable)
    \/ \E kind \in {"rows", "none", "failed", "timeout"} :
           FallbackEnds(kind, CountTable)

SpecCustom == CustomInit /\ [][CustomNext]_vars

---------------------------------------------------------------------------
(* The client printing timing and metadata lines *)

\* A timing line, and a request line printed after a blank.
MetadataLinesOf ==
    {Line("metadata", <<>>, <<>>, <<"Time:", SP, "1">>),
     Line("metadata", <<>>, <<>>, <<SP, "Request Id:", SP, "x">>)}

\* The line is a well-formed message.
IsMessage(l) == l.kind \in {"START", "DATA"}

\* The messages among what was printed, in the order printed.
Messages(items) == SelectSeq(items, IsMessage)

\* The timing and metadata lines among what was printed.
MetadataIn(items) == SelectSeq(items, LAMBDA l : l.kind = "metadata")

\* The client prints a timing or metadata line.
PrintMetadata(m) ==
    /\ pc = "printing"
    /\ m \in MetadataLinesOf
    /\ Printed(sent) < MaxLines
    /\ stdout' = stdout \o m.text \o <<LF>>
    /\ sent' = Append(sent, m)
    /\ UNCHANGED <<appvars, filevars, query, pc, timeout, now, start_time, execution_time,
                   runs, parsed, ret>>

\* The client prints one message in three pieces, cut after its i-th and
\* its j-th character, and the line m after the first or the second piece.
PrintSplitAround(l, i, j, m, after) ==
    /\ pc = "printing"
    /\ l \in SplitLinesOf
    /\ 1 <= i /\ i < j /\ j < Len(l.text)
    /\ m \in MetadataLinesOf
    /\ after \in {1, 2}
    /\ Printed(sent) + 3 <= MaxLines
    /\ stdout' = stdout \o SubSeq(l.text, 1, i) \o <<LF>>
                        \o (IF after = 1 THEN m.text \o <<LF>> ELSE <<>>)
                        \o SubSeq(l.text, i + 1, j) \o <<LF>>
                        \o (IF after = 2 THEN m.text \o <<LF>> ELSE <<>>)
                        \o SubSeq(l.text, j + 1, Len(l.text)) \o <<LF>>
    /\ sent' = sent \o <<[l EXCEPT !.cuts = <<i, j>>], m>>
    /\ UNCHANGED <<appvars, filevars, query, pc, timeout, now, start_time, execution_time,
                   runs, parsed, ret>>

\* The decoder alone, applied to what a client printed that prints
\* well-formed messages, whole or in three pieces the second of which is
\* one character long, and timing and metadata lines between any two
\* lines.
MetadataNext ==
    \/ \E l \in SplitLinesOf \cup {DataLine(<< <<One>> >>)} : PrintLine(l)
    \/ \E m \in MetadataLinesOf : PrintMetadata(m)
    \/ \E l \in SplitLinesOf, m \in MetadataLinesOf, after \in {1, 2} :
          \E i \in 1..(Len(l.text) - 2) : PrintSplitAround(l, i, i + 1, m, after)
    \/ Decode

SpecMetadata == DecoderInit /\ [][MetadataNext]_vars

---------------------------------------------------------------------------
(* The client printing any characters *)

\* Characters the client prints before the decoder is applied.
MaxChars == 3

\* Printable characters, the blank, the characters the cleaning step names
\* and characters outside printable ASCII.
RawChars == {"a", "1", "{", "}", SP, TAB, CR, LF, "<ESC>", "<e-acute>"}

\* The client prints one character.
PrintRaw(c) ==
    /\ pc = "printing"
    /\ c \in RawChars
    /\ Len(stdout) < MaxChars
    /\ stdout' = Append(stdout, c)
    /\ UNCHANGED <<appvars, filevars, query, pc, timeout, now, start_time, execution_time,
                   sent, runs, parsed, ret>>

\* The decoder alone, applied to any text of up to MaxChars characters.
CleanNext ==
    \/ \E c \in RawChars : PrintRaw(c)
    \/ Decode

SpecClean == DecoderInit /\ [][CleanNext]_vars


---------------------------------------------------------------------------
(* Properties of the decoder on well-formed streams *)

\* The rows the printed messages carry, in the order printed.
RECURSIVE RowsOf(_)
RowsOf(items) ==
    IF items = <<>> THEN <<>> ELSE Head(items).rows \o RowsOf(Tail(items))

\* What was printed is one START message declaring k >= 1 columns followed
\* by DATA messages whose rows have k values each, one message per line.
WellFormedStream ==
    /\ sent # <<>>
    /\ sent[1].kind = "START"
    /\ sent[1].cuts = <<>>
    /\ \A i \in 2..Len(sent) :
          /\ sent[i].kind = "DATA"
          /\ sent[i].cuts = <<>>
          /\ \A r \in 1..Len(sent[i].rows) :
                Len(sent[i].rows[r]) = Len(sent[1].cols)

\* The table of the declared columns and the carried rows.
TableSent == [columns |-> sent[1].cols, rows |-> RowsOf(Tail(sent))]

\* Every character printed is printable ASCII, a newline or a tab.
PrintableOutput == \A i \in 1..Len(stdout) : stdout[i] \notin NonPrintable

\* C1 as stated: for every N >= 0 and M >= 0, one well-formed START
\* message followed by N well-formed DATA messages carrying M rows decodes
\* to the declared columns and exactly the M rows in arrival order.
C1_AnyStream ==
    (pc = "decoded" /\ WellFormedStream)
        => (parsed.exc = "none" /\ parsed.frame = TableSent)

\* C1 amended: the same for M >= 1 rows when every character printed is
\* printable ASCII; with M = 0 the decoder returns the empty frame, and
\* characters outside printable ASCII are removed from the values.
C1_RowsDecoded ==
    (pc = "decoded" /\ WellFormedStream /\ PrintableOutput
        /\ RowsOf(Tail(sent)) # <<>>)
        => (parsed.exc = "none" /\ parsed.frame = TableSent)

\* C1 witness: two DATA messages with different rows were decoded to a
\* table of two rows.
C1_Witness ==
    /\ pc = "decoded" /\ WellFormedStream /\ PrintableOutput
    /\ Len(sent) = 3
    /\ sent[2].rows # <<>> /\ sent[3].rows # <<>> /\ sent[2].rows # sent[3].rows
    /\ parsed.frame = TableSent
    /\ Len(parsed.frame.rows) = 2

\* columns and data_rows when the loop over the candidates ends or raises.
Collected == Collect(JsonLines(CleanOutput(stdout)))

\* C2 as stated: for any input text in which no START message is decoded
\* or no DATA rows are collected, the decoder returns the empty ResultSet
\* instead of raising.
C2_EmptyNotRaised ==
    (pc = "decoded" /\ (Collected.columns = <<>> \/ Collected.data_rows = <<>>))
        => (parsed.exc = "none" /\ parsed.frame = EmptyDataFrame)

\* C8 as stated: the value the decoder returns is the empty ResultSet or a
\* table in which every row has one value per declared column, no cell
\* extra and none missing.
C8_RowsHaveDeclaredColumns ==
    (pc = "decoded" /\ parsed.exc = "none" /\ parsed.frame # EmptyDataFrame)
        => /\ parsed.frame.columns = Collected.columns
           /\ \A r \in 1..Len(parsed.frame.rows) :
                 /\ Len(parsed.frame.rows[r]) = Len(parsed.frame.columns)
                 /\ \A c \in 1..Len(parsed.frame.rows[r]) :
                       parsed.frame.rows[r][c] # NaN

\* C9 as stated: for any input text the decoder returns without raising.
C9_NeverRaises == pc = "decoded" => parsed.exc = "none"

---------------------------------------------------------------------------
(* Properties of the decoder on messages printed in pieces *)

\* The text of what was printed had every message been printed whole.
RECURSIVE Unsplit(_)
Unsplit(items) ==
    IF items = <<>> THEN <<>>
    ELSE Head(items).text \o <<LF>> \o Unsplit(Tail(items))

\* The three pieces of a message printed in pieces.
Pieces(l) ==
    <<SubSeq(l.text, 1, l.cuts[1]),
      SubSeq(l.text, l.cuts[1] + 1, l.cuts[2]),
      SubSeq(l.text, l.cuts[2] + 1, Len(l.text))>>

\* The pieces of l are such that the loop of lines 151-173 puts them
\* together again: none begins or ends with whitespace, none begins like
\* a timing or metadata line, only the first begins with an opening brace
\* and only the last ends the accumulated text with a closing brace.
CutsKept(l) ==
    \A p \in {Pieces(l)} :
        /\ \A n \in 1..3 : Strip(p[n]) = p[n] /\ ~IsMetadataLine(p[n])
        /\ Head(p[2]) # "{" /\ Head(p[3]) # "{"
        /\ Last(p[1]) # "}" /\ Last(p[2]) # "}"

---------------------------------------------------------------------------
(* Properties of execute_query *)

\* The call has returned.
Returned == pc = "done"

\* Some invocation of the call ended the way how.
SomeRun(how) == \E n \in 1..Len(runs) : runs[n].end = how

\* C4: when the primary invocation exits with a code other than 0, the
\* call returns success = false and the empty ResultSet whatever was
\* printed, reports the time measured when the process exited, and makes
\* no fallback invocation.
C4_NonZeroExit ==
    (Returned /\ runs[1].end = "exit" /\ runs[1].returncode # 0)
        => /\ ret.success = FALSE
           /\ ret.df = EmptyDataFrame
           /\ ret.elapsed = runs[1].ended - start_time
           /\ Len(runs) = 1

\* C4 witness: the primary invocation printed a decodable table and then
\* exited with code 1.
C4_Witness ==
    /\ Returned /\ runs[1].end = "exit" /\ runs[1].returncode = 1
    /\ ParseJsonlinesOutput(stdout).frame # EmptyDataFrame
    /\ ret.elapsed = 2

\* C5: when an invocation of the call, the primary one or the CSV
\* fallback, does not finish within the timeout, the call returns
\* success = false, the empty ResultSet and the timeout as elapsed time.
C5_TimeoutExpired ==
    (Returned /\ SomeRun("timeout"))
        => ret = Return(EmptyDataFrame, timeout, FALSE)

\* C5 witness: the CSV fallback timed out, and the time that passed since
\* the call was entered is not the timeout.
C5_Witness ==
    /\ Returned /\ Len(runs) = 2 /\ runs[2].end = "timeout"
    /\ ret.elapsed = timeout
    /\ now - start_time # timeout

\* C6 as stated: if more time than the timeout passes between entering
\* the call and its return, the call returns success = false and the
\* timeout as elapsed time.
C6_LongCallFails ==
    (Returned /\ now - start_time > timeout)
        => (ret.success = FALSE /\ ret.elapsed = timeout)

\* C7 as stated: when the primary invocation exits with code 0, and no
\* invocation times out or fails to launch, the call returns
\* success = true whatever the decoder makes of the output.
C7_DecodingNeverFails ==
    (/\ Returned
     /\ runs[1].end = "exit" /\ runs[1].returncode = 0
     /\ ~SomeRun("timeout") /\ ~SomeRun("raised"))
        => ret.success = TRUE

\* C10: one call launches the client at most twice, first asking for
\* JSONLines_Compact and then at most once for CSV, and launches nothing
\* after an invocation that exited with a code other than 0, timed out or
\* could not be launched, nor after output on which the decoder raised.
C10_AtMostTwoLaunches ==
    /\ Len(runs) <= 2
    /\ Len(runs) >= 1 => runs[1].format = "JSONLines_Compact"
    /\ Len(runs) = 2
          => /\ runs[2].format = "CSV"
             /\ runs[1].end = "exit" /\ runs[1].returncode = 0
             /\ parsed.called /\ parsed.exc = "none"

\* C10 witness: the decoder raised on the output of a primary invocation
\* that exited with code 0, and the call returned after one launch.
C10_Witness ==
    /\ Returned /\ Len(runs) = 1
    /\ runs[1].end = "exit" /\ runs[1].returncode = 0
    /\ parsed.called /\ parsed.exc # "none"

\* The primary invocation has returned or raised.
PrimaryEnded == runs # <<>> /\ runs[1].end # "running"

\* C11 as stated: the CSV fallback is launched if and only if the primary
\* invocation exited with code 0 and its output yielded an empty
\* ResultSet.
C11_FallbackIffEmpty ==
    PrimaryEnded
        => (Len(runs) = 2
              <=> /\ runs[1].end = "exit" /\ runs[1].returncode = 0
                  /\ parsed.exc = "none" /\ IsEmpty(parsed.frame))

\* C11 amended: the CSV fallback is launched if and only if the primary
\* invocation exited with code 0, printed something other than whitespace
\* and the decoder returned an empty frame for it; the fallback is given
\* the query text and the timeout of the call and starts after the
\* primary invocation has exited.
C11_FallbackIffDecodedEmpty ==
    PrimaryEnded
        => /\ Len(runs) = 2
                <=> /\ runs[1].end = "exit" /\ runs[1].returncode = 0
                    /\ Strip(stdout) # <<>>
                    /\ parsed.called /\ parsed.exc = "none"
                    /\ IsEmpty(parsed.frame)
           /\ Len(runs) = 2
                => /\ runs[2].format = "CSV"
                   /\ runs[2].query = query /\ runs[1].query = query
                   /\ runs[2].timeout = timeout /\ runs[1].timeout = timeout
                   /\ runs[2].started >= runs[1].ended

\* C11 witness: the fallback runs after a primary invocation whose output
\* was a START message alone.
C11_Witness ==
    /\ pc = "fallback" /\ Len(runs) = 2
    /\ Len(sent) = 1 /\ sent[1].kind = "START"
    /\ runs[2].started > runs[1].started

---------------------------------------------------------------------------
(* Properties of the dashboard *)

C13_OneRecordPerRun ==
    script = "ready"
        => /\ Len(query_results) = Len(ran)
           /\ Len(query_execution_order) = Len(ran)
           /\ \A n \in 1..Len(ran) : query_execution_order[n] = ran[n].query_id

\* The atom occurs in the text sql.
Mentions(sql, atom) == \E i \in 1..Len(sql) : sql[i] = atom

\* Every occurrence of the text part in sql lies after the WHERE keyword.
InWhereClause(sql, part) ==
    \A i \in 1..(Len(sql) - Len(part) + 1) :
       SubSeq(sql, i, i + Len(part) - 1) = part
           => \E w \in 1..(i - 1) : sql[w] = " WHERE "

\* C14: the SQL execute_benchmark_query runs has, in its WHERE clause, the
\* fragment street_name = '<street>' exactly once when a street is selected
\* and no street fragment otherwise, the fragment vehicle_make = '<car>'
\* exactly once when a car is selected and no car fragment otherwise, and
\* the BETWEEN fragment of the amount range exactly once; so with street
\* Broadway, amounts 10 and 50 and no car it has street_name = 'Broadway'
\* once, calculated_fine_amount BETWEEN 10 AND 50 once and no vehicle_make
\* fragment.
C14_Templater ==
    caller.op = "benchmark"
        => \A street_filter \in Streets, amount_range \in AmountRanges,
              car_filter \in Cars :
              caller.sql = BenchmarkSql(caller.query_id[1], street_filter,
                                        amount_range, car_filter)
                  => /\ Mentions(caller.sql, "street_name = '") <=> street_filter # ""
                     /\ street_filter # ""
                           => Occurrences(caller.sql, StreetFragment(street_filter)) = 1
                     /\ Occurrences(caller.sql, <<"street_name = '">>) <= 1
                     /\ Mentions(caller.sql, "vehicle_make = '") <=> car_filter # ""
                     /\ car_filter # ""
                           => Occurrences(caller.sql, CarFragment(car_filter)) = 1
                     /\ Occurrences(caller.sql, <<"vehicle_make = '">>) <= 1
                     /\ Occurrences(caller.sql, AmountFragment(amount_range)) = 1
                     /\ Occurrences(caller.sql, <<"calculated_fine_amount BETWEEN ">>) = 1
                     /\ InWhereClause(caller.sql, <<"street_name = '">>)
                     /\ InWhereClause(caller.sql, <<"vehicle_make = '">>)
                     /\ InWhereClause(caller.sql, <<"calculated_fine_amount BETWEEN ">>)

\* C14 witness: Q4, whose template has a BETWEEN of its own, is run with
\* street Broadway, amounts 10 and 50 and no car.
C14_Witness ==
    /\ script = "primary" /\ caller.op = "benchmark"
    /\ caller.sql = BenchmarkSql("Q4", "Broadway",
                                 <<Amount(10, FALSE), Amount(50, FALSE)>>, "")
    /\ Occurrences(caller.sql, <<"street_name = '", "Broadway", "'">>) = 1
    /\ Occurrences(caller.sql,
                   <<"calculated_fine_amount BETWEEN ", "10", " AND ", "50">>) = 1
    /\ ~Mentions(caller.sql, "vehicle_make = '")

---------------------------------------------------------------------------
(* Properties of execute_query, continued *)

\* The last invocation of the call has ended, by exiting, by timing out or
\* by failing to launch.
LastRunEnded == runs # <<>> /\ runs[Len(runs)].end # "running"

\* C15: execute_query propagates no exception: whichever way its last
\* invocation ended (it could not be launched, exited with a code other
\* than 0, timed out, or printed what the decoder raises on) the call has
\* returned a triple of a ResultSet, an elapsed time and a boolean, and
\* the boolean is false when an invocation could not be launched.
C15_ErrorsReturned ==
    /\ LastRunEnded => Returned
    /\ Returned => /\ DOMAIN ret = {"df", "elapsed", "success"}
                   /\ ret.success \in BOOLEAN
                   /\ ret.elapsed \in Nat
    /\ (Returned /\ SomeRun("raised"))
           => (ret.success = FALSE /\ ret.df = EmptyDataFrame)

\* C15 witness: the primary invocation could not be launched and the call
\* returned failure.
C15_Witness ==
    /\ Returned /\ Len(runs) = 1 /\ runs[1].end = "raised"
    /\ ret.success = FALSE

---------------------------------------------------------------------------
(* Properties of the dashboard, continued *)

\* C16: test_connection returns a boolean, true exactly when the
\* execute_query call it makes, of the query SELECT 1 as test with
\* timeout 10, reported success, whatever number of rows came back.
C16_ConnectedIffSuccess ==
    /\ connected \in BOOLEAN
    /\ tested.called => connected = tested.success
    /\ caller.op = "test" => (caller.sql = TestQuery /\ caller.timeout = TestTimeout)

\* C16 witness: execute_query reported success with an empty frame and
\* test_connection returned true.
C16_Witness ==
    /\ script = "ready" /\ tested.called
    /\ tested.success /\ tested.rows = 0
    /\ connected = TRUE

\* C17: while the cache is not cleared, a get_filter_data call made less
\* than the time to live of 300 seconds after a call that ran the queries
\* returned issues no query and returns the lists that call returned,
\* whichever connector it is passed.
C17_CachedWithinTtl ==
    \A i \in 1..Len(fetched), j \in 1..Len(fetched) :
       (/\ i < j
        /\ fetched[i].queries > 0
        /\ fetched[j].called - fetched[i].returned < CacheTtl)
           => (fetched[j].queries = 0 /\ fetched[j].value = fetched[i].value)

\* C17 witness: a call with another connector, 299 seconds after the call
\* that ran the three queries returned, got that call's street list
\* without a query.
C17_Witness ==
    /\ Len(fetched) >= 2
    /\ fetched[1].queries = 3 /\ fetched[1].value.streets # <<>>
    /\ fetched[2].queries = 0 /\ fetched[2].value = fetched[1].value
    /\ fetched[2].connector # fetched[1].connector
    /\ fetched[2].called - fetched[1].returned = CacheTtl - 1

---------------------------------------------------------------------------
(* Properties of the decoder on streams with other lines *)

\* What was printed is a well-formed stream of whole messages with other
\* lines between them, none of which begins with an opening brace.
StreamWithStatusLines ==
    /\ Len(sent) >= 2
    /\ sent[1].kind = "START" /\ IsMessage(sent[Len(sent)])
    /\ \A i \in 1..Len(sent) :
          /\ sent[i].cuts = <<>>
          /\ IsMessage(sent[i]) \/ Head(sent[i].text) # "{"
    /\ \A i \in 2..Len(sent) :
          /\ sent[i].kind # "START"
          /\ \A r \in 1..Len(sent[i].rows) :
                Len(sent[i].rows[r]) = Len(sent[1].cols)

\* C18 as stated: lines that do not begin with an opening brace, printed
\* between the whole messages of a well-formed stream, leave what the
\* decoder returns unchanged.
C18_StatusLinesIgnored ==
    (pc = "decoded" /\ StreamWithStatusLines)
        => parsed = Called(ParseJsonlinesOutput(Unsplit(Messages(sent))))

\* The stripped line begins like a timing or metadata line.
BeginsLikeMetadata(line) ==
    StartsWith(line, <<"Time:">>) \/ StartsWith(line, <<"Request Id:">>)

\* The text without its lines whose trimmed text begins like a timing or
\* metadata line.
WithoutMetadata(text) ==
    Join(SelectSeq(SplitLines(text),
                   LAMBDA line : ~BeginsLikeMetadata(Strip(line))),
         <<LF>>)

\* The trimmed lines of the cleaned text that are not blank and do not
\* begin like a timing or metadata line, one after the other.
KeptText(text) ==
    Only({Join(SelectSeq([n \in 1..Len(lines) |-> Strip(lines[n])],
                         LAMBDA line : ~BeginsLikeMetadata(line)),
               <<>>)
          : lines \in {SplitLines(Strip(CleanOutput(text)))}})

\* The text of the candidates, one after the other.
CandidateText(text) == Join(JsonLines(CleanOutput(text)), <<>>)

\* The trimmed text of the messages printed, whole or in pieces, one after
\* the other.
RECURSIVE FragmentsSent(_)
FragmentsSent(items) ==
    IF items = <<>> THEN <<>>
    ELSE (IF ~IsMessage(Head(items)) THEN <<>>
          ELSE IF Head(items).cuts = <<>> THEN Strip(Head(items).text)
          ELSE Only({Strip(p[1]) \o Strip(p[2]) \o Strip(p[3])
                     : p \in {Pieces(Head(items))}}))
         \o FragmentsSent(Tail(items))

\* C19 as stated: only the timing and metadata lines are discarded; every
\* line that is a piece of a message's JSON text is kept in a candidate.
C19_FragmentsKept ==
    pc = "decoded" => CandidateText(stdout) = FragmentsSent(sent)

\* C19 amended: a line whose trimmed text begins with Time: or Request Id:
\* is part of no candidate, every other non-blank line is part of one, and
\* the decoder returns what it returns for the output without those lines,
\* wherever they stand, also between the pieces of a message; a piece of a
\* message that begins with one of these prefixes is discarded like them.
C19_MetadataDropped ==
    pc = "decoded"
        => /\ CandidateText(stdout) = KeptText(stdout)
           /\ parsed = Called(ParseJsonlinesOutput(WithoutMetadata(stdout)))

\* C19 witness: a DATA message was printed in three pieces with a timing
\* or metadata line between two of them, and its row was decoded.
C19_Witness ==
    /\ pc = "decoded" /\ Len(sent) = 3
    /\ sent[1].kind = "START" /\ sent[1].cuts = <<>>
    /\ sent[2].kind = "DATA" /\ sent[2].cuts # <<>> /\ CutsKept(sent[2])
    /\ sent[3].kind = "metadata"
    /\ WithoutMetadata(stdout) # stdout
    /\ parsed.exc = "none"
    /\ parsed.frame = [columns |-> sent[1].cols, rows |-> sent[2].rows]

---------------------------------------------------------------------------
(* Properties of the cleaning step *)

\* The character is in the printable ASCII range 0x20-0x7E.
IsPrintableAscii(c) == c \notin NonPrintable \cup {LF, CR, TAB}

\* C20 as stated: the cleaned text is the input without its characters
\* other than printable ASCII, newline and tab.
C20_NewlineAndTabKept ==
    pc = "decoded"
        => CleanOutput(stdout) =
               SelectSeq(stdout, LAMBDA c : IsPrintableAscii(c) \/ c \in {LF, TAB})

\* C20 amended: the cleaned text is the input without its characters
\* other than printable ASCII, newline, carriage return and tab; it holds
\* no other character, and the printable ASCII characters of the input are
\* all in it, in their order.
C20_NewlineReturnAndTabKept ==
    pc = "decoded"
        => \A cleaned \in {CleanOutput(stdout)} :
              /\ cleaned = SelectSeq(stdout, LAMBDA c : IsPrintableAscii(c)
                                                        \/ c \in {LF, CR, TAB})
              /\ \A i \in 1..Len(cleaned) :
                    IsPrintableAscii(cleaned[i]) \/ cleaned[i] \in {LF, CR, TAB}
              /\ SelectSeq(cleaned, IsPrintableAscii)
                     = SelectSeq(stdout, IsPrintableAscii)

\* C20 witness: of an escape byte, a carriage return and a letter the
\* carriage return and the letter are left.
C20_Witness ==
    /\ pc = "decoded"
    /\ stdout = <<"<ESC>", CR, "a">>
    /\ CleanOutput(stdout) = <<CR, "a">>

---------------------------------------------------------------------------
(* Properties of the filters *)

\* C21 as stated: with no street, no car and the amount range at its
\* default, execute_benchmark_query runs the template with its three
\* placeholders replaced by empty strings.
C21_UnsetFiltersAddNothing ==
    (/\ script = "primary" /\ caller.op = "benchmark"
     /\ caller.sql = BenchmarkSql(caller.query_id[1], "", DefaultRange, ""))
        => caller.sql = Format(Template(caller.query_id[1]), <<>>, <<>>, <<>>)

\* The WHERE keyword however cased and delimited, the keywords of the
\* clauses that follow a WHERE clause, and the first atoms of the filter
\* conditions.
WhereKeywords == {" WHERE ", " where ", " Where ", "WHERE"}
TailKeywords == {" GROUP BY ", " ORDER BY ", " LIMIT "}
ConditionHeads == {"street_name = '", "vehicle_make = '", "calculated_fine_amount BETWEEN "}

\* C22 as stated: when execute_custom_query adds the filter conditions to
\* a query, the SQL it runs has one WHERE and has no condition after a
\* GROUP BY, ORDER BY or LIMIT of the query.
C22_ConditionsInWhereClause ==
    (/\ script = "primary" /\ caller.op = "custom"
     /\ caller.sql # caller.original_sql)
        => /\ Cardinality({i \in 1..Len(caller.sql) :
                              caller.sql[i] \in WhereKeywords}) = 1
           /\ \A i \in 1..Len(caller.sql), j \in 1..Len(caller.sql) :
                 (caller.sql[i] \in TailKeywords /\ caller.sql[j] \in ConditionHeads)
                     => j < i

\* C27 as stated: execute_custom_query adds the BETWEEN condition on the
\* amount exactly when the active-filter summary of the sidebar lists an
\* Amount filter, for every value of the slider and every list of
\* available amounts.
C27_AmountJudgedAlike ==
    (/\ script = "primary" /\ caller.op = "custom"
     /\ caller.filters_applied /\ MentionsViolations(caller.original_sql))
        => \A amount_range \in SliderValues(filter_data.amounts), car_filter \in Cars :
              caller.sql = CustomSql(caller.original_sql, TRUE, "", amount_range,
                                     car_filter)
                  => (Mentions(caller.sql, "calculated_fine_amount BETWEEN ")
                         <=> AmountListed(amount_range, filter_data.amounts))


---------------------------------------------------------------------------
(* Properties of the results *)

\* The place of the last run stored under a query id among the runs
\* completed since the last Clear Results.
LastRun(id) ==
    Only({i \in 1..Len(ran) :
             /\ ran[i].query_id = id
             /\ \A j \in (i + 1)..Len(ran) : ran[j].query_id # id})

\* The row of a query id in the table.
RowOf(id) ==
    Only({row \in 1..Len(query_results) : ResultsTable(query_results)[row] = id})

\* C23 as stated: of any two stored records the one whose run finished
\* later stands above the other in the Execution Results table, two runs
\* within the same second included.
C23_LaterRunsAbove ==
    \A i, j \in 1..Len(query_results) :
        LastRun(query_results[i][1]) > LastRun(query_results[j][1])
            => RowOf(query_results[i][1]) < RowOf(query_results[j][1])


\* C24 as stated: every successful, non-empty stored result of Q2 is drawn
\* as the revenue-by-street bar chart and every such result of Q1 as the
\* overall-statistics metrics, whatever the number of rows; results that
\* failed or are empty are skipped.
C24_DispatchByQuery ==
    \A i \in 1..Len(query_results) :
        Only({IF ~result.success \/ IsEmpty(result.data)
              THEN Visualization(result) = "skipped"
              ELSE /\ query_results[i][1][1] = "Q2"
                       => Visualization(result) = "revenue by street"
                   /\ query_results[i][1][1] = "Q1"
                       => Visualization(result) = "metrics"
              : result \in {query_results[i][2]}})


\* C25: every return of execute_query with success = false carries the
\* empty frame, whichever path returned it, so the row_count of the record
\* made of a return (lines 872-878) is the number of rows of its data.
C25_FailureCarriesNoRows ==
    Returned =>
        /\ ~ret.success => ret.df = EmptyDataFrame
        /\ Record(caller, ret, clock).row_count
               = Len(Record(caller, ret, clock).data.rows)

\* A failure was returned after the client had printed lines.
C25_FailedAfterOutput ==
    /\ Returned
    /\ ~ret.success
    /\ sent # <<>>
    /\ \/ SomeRun("timeout")
       \/ SomeRun("raised")


\* C26: on the success path the elapsed time returned is the one captured
\* when the primary invocation returned: it is the duration of the
\* primary invocation alone, whatever decoding and the CSV invocation took.
C26_ElapsedIsPrimaryDuration ==
    (Returned /\ ret.success)
        => ret.elapsed = runs[1].ended - runs[1].started

\* The CSV invocation supplied the rows, and execute_query returned later
\* than the elapsed time it reports.
C26_FallbackSuppliedRows ==
    /\ Returned
    /\ ret.success
    /\ Len(runs) = 2
    /\ runs[2].end = "exit"
    /\ ~IsEmpty(ret.df)
    /\ runs[2].ended - runs[2].started > 0
    /\ now - start_time > ret.elapsed


\* The keys of st.session_state.query_results.
StoredKeys == {query_results[i][1] : i \in 1..Len(query_results)}

\* C28: in every state of a session latest_query is None exactly when
\* query_results is empty; otherwise it is a key of query_results and the
\* last element of query_execution_order, which holds each key of
\* query_results exactly once and nothing else.
C28_SessionState ==
    /\ latest_query = <<"", 0>> <=> query_results = <<>>
    /\ query_results # <<>>
           => /\ latest_query \in StoredKeys
              /\ latest_query = query_execution_order[Len(query_execution_order)]
    /\ {query_execution_order[i] : i \in 1..Len(query_execution_order)} = StoredKeys
    /\ Len(query_execution_order) = Cardinality(StoredKeys)
    /\ Len(query_results) = Cardinality(StoredKeys)

\* A query was run again under the key of an earlier run: the key is
\* stored once and stands once in the order.
C28_RunAgain ==
    /\ Len(ran) = 2
    /\ ran[1].query_id = ran[2].query_id
    /\ Len(query_results) = 1
    /\ query_execution_order = <<latest_query>>


---------------------------------------------------------------------------
(* Properties of the downloader *)

\* C29 as stated: download_file returns True only when the complete
\* content of the file is in the data directory, whatever calls for the
\* same filename came before.
C29_TrueOnlyWhenComplete ==
    \A i \in 1..Len(downloads) :
        downloads[i].returned
            => /\ downloads[i].file.exists
               /\ downloads[i].file.written = Content(downloads[i].filename)


---------------------------------------------------------------------------
(* Properties of get_filter_data *)

\* The lists get_filter_data holds after a step.
ListsAfter == IF caller'.op = "filter" THEN caller'.lists ELSE filter_data'

\* The query of the stage in progress returned to get_filter_data.
StageEnds ==
    /\ caller.op = "filter"
    /\ caller'.op # "filter" \/ caller'.stage # caller.stage

\* C30: get_filter_data returns a mapping of exactly the keys streets,
\* amounts and cars, each a list, after its three queries or from the
\* cache; the query of a stage, however it ends, changes no list but its
\* own, and the query of the next stage is issued after it.
C30_EachQueryOnItsOwn ==
    /\ [](\A i \in 1..Len(fetched) :
             /\ DOMAIN fetched[i].value = {"streets", "amounts", "cars"}
             /\ \A key \in DOMAIN fetched[i].value :
                   DOMAIN fetched[i].value[key] = 1..Len(fetched[i].value[key])
             /\ fetched[i].queries \in {0, Len(FilterQueries)})
    /\ [][StageEnds =>
             /\ \A stage \in 1..Len(FilterQueries) :
                   stage # caller.stage
                       => ListsAfter[FilterKeys[stage]] = caller.lists[FilterKeys[stage]]
             /\ ListsAfter[FilterKeys[caller.stage]] # <<>>
                   => ListsAfter[FilterKeys[caller.stage]] = <<One, Two>>
             /\ IF caller.stage < Len(FilterQueries)
                THEN /\ script' = "primary"
                     /\ caller'.stage = caller.stage + 1
                     /\ caller'.sql = FilterQueries[caller.stage + 1]
                ELSE /\ script' = "ready"
                     /\ Len(fetched') = Len(fetched) + 1
                     /\ fetched'[Len(fetched')].value = ListsAfter]_vars

\* get_filter_data returned with the list of streets empty and the two
\* lists after it filled.
C30_OthersFilled ==
    /\ fetched # <<>>
    /\ fetched[Len(fetched)].queries = Len(FilterQueries)
    /\ fetched[Len(fetched)].value.streets = <<>>
    /\ fetched[Len(fetched)].value.amounts = <<One, Two>>
    /\ fetched[Len(fetched)].value.cars = <<One, Two>>

===========================================================================
